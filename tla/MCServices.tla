----------------------------- MODULE MCServices -----------------------------
(***************************************************************************)
(* Instances for TLC of the services that share no variable.  A behaviour  *)
(* takes the steps of one of them, its focus, and the others stay at one   *)
(* of their initial states: the states of each are reached, not their      *)
(* product.                                                                *)
(***************************************************************************)
EXTENDS AuditTrail, LoginRateLimit, ExportSlots, Catalogues, EpssScores,
        CpeDictionary, Listing, ProjectList

Entry(id, body) == [id |-> id, body |-> body]
SmallArchives == {
    <<>>, <<Entry("x", 1), Entry("x", 2)>>,
    <<Entry("x", 1), Entry("y", 0), Entry("y", 2)>>,
    <<Entry("x", 2), Entry("y", 1), Entry("x", 1)>>,
    <<Entry("y", 3)>>}

Column4(seen, severity, project, cves) ==
    [seen |-> seen, severity |-> severity, project |-> project, cves |-> cves]
GroupColumns(component, version, rule, name, secret, print, file) ==
    [component |-> component, version |-> version, rule |-> rule, name |-> name,
     secret |-> secret, print |-> print, file |-> file, status |-> 0]

\* Three findings are seen at one instant, more than a page holds.  A component
\* has an @ in its name, another in its version; a rule has a dash at the end of
\* its id, another has the id that the first one's key is cut to, and the last
\* one's id is the key of another rule.  A CVE has too many findings.
FiveFindings == <<
    Column4(1, 2, "p", {"c"}) @@ GroupColumns(<<"x">>, <<"1">>, <<"r">>, <<"n">>, FALSE, "", "f"),
    Column4(1, 1, "q", {"c", "d"}) @@ GroupColumns(<<"@", "x">>, <<>>, <<"r">>, <<"n">>, FALSE, "", "f"),
    Column4(1, 2, "p", {}) @@ GroupColumns(<<"x">>, <<"1">>, <<"s", "blank", "dash">>, <<"n">>, TRUE, "k", "f"),
    Column4(2, 1, "q", {"d"}) @@ GroupColumns(<<"x">>, <<"1", "@", "2">>, <<"s">>, <<>>, TRUE, "", "g"),
    Column4(2, 2, "p", {"c"}) @@ GroupColumns(<<"x">>, <<"2">>, <<"r", "blank", "dash", "blank", "n">>, <<>>, FALSE, "k", "f")>>

Filter(projects, severities, statuses, hasCve, empty) ==
    [projects |-> projects, severities |-> severities, statuses |-> statuses,
     hasCve |-> hasCve, empty |-> empty]
SomeFilters == {
    Filter({}, {}, {}, FALSE, FALSE), Filter({}, {2}, {}, FALSE, FALSE),
    Filter({"q"}, {}, {0}, TRUE, FALSE), Filter({"p"}, {}, {0}, FALSE, FALSE),
    Filter({"q"}, {2}, {}, FALSE, TRUE)}

FourProjects == [1..4 -> 1..2]

VARIABLE focus
services == <<auditVars, limitVars, slotVars, catalogueVars, epssVars, cpeVars, listingVars, boardVars>>
mcVars == <<services, focus>>

Init ==
    /\ focus \in {"audit", "login", "slots", "catalogues", "epss", "cpe", "listing", "projects"}
    /\ AuditInit /\ LimitInit /\ SlotsInit /\ CataloguesInit
    /\ EpssInit /\ CpeInit /\ ListingInit /\ BoardInit
    /\ focus # "catalogues" => source = "kev" /\ \A p \in DOMAIN feed : feed[p] = <<>>
    /\ focus # "listing" => present = {}
    /\ focus # "projects" => pinned = {} /\ \A p \in DOMAIN column : column[p] = 1

Next ==
    \/ /\ focus = "audit" /\ AuditNext
       /\ UNCHANGED <<limitVars, slotVars, catalogueVars, epssVars, cpeVars, listingVars, boardVars, focus>>
    \/ /\ focus = "login" /\ LimitNext
       /\ UNCHANGED <<auditVars, slotVars, catalogueVars, epssVars, cpeVars, listingVars, boardVars, focus>>
    \/ /\ focus = "slots" /\ SlotsNext
       /\ UNCHANGED <<auditVars, limitVars, catalogueVars, epssVars, cpeVars, listingVars, boardVars, focus>>
    \/ /\ focus = "catalogues" /\ CataloguesNext
       /\ UNCHANGED <<auditVars, limitVars, slotVars, epssVars, cpeVars, listingVars, boardVars, focus>>
    \/ /\ focus = "epss" /\ EpssNext
       /\ UNCHANGED <<auditVars, limitVars, slotVars, catalogueVars, cpeVars, listingVars, boardVars, focus>>
    \/ /\ focus = "cpe" /\ CpeNext
       /\ UNCHANGED <<auditVars, limitVars, slotVars, catalogueVars, epssVars, listingVars, boardVars, focus>>
    \/ /\ focus = "listing" /\ ListingNext
       /\ UNCHANGED <<auditVars, limitVars, slotVars, catalogueVars, epssVars, cpeVars, boardVars, focus>>
    \/ /\ focus = "projects" /\ BoardNext
       /\ UNCHANGED <<auditVars, limitVars, slotVars, catalogueVars, epssVars, cpeVars, listingVars, focus>>

Spec == Init /\ [][Next]_mcVars /\ LimitFairness
=============================================================================
