----------------------------- MODULE ExportSlots -----------------------------
(***************************************************************************)
(* The slots that limit the exports of one user (takeExportSlot,           *)
(* prepareExport, releaseExportSlot of api/export.go): a counter in Redis  *)
(* of those that run, which expires two minutes after it was last one, and *)
(* one of those begun in five minutes.  Every command is a step of its     *)
(* own; its error is ignored and lets the export go on.                    *)
(***************************************************************************)
EXTENDS Integers, FiniteSets

CONSTANTS
    Exports,    \* requests of the user
    Html,       \* those for HTML, which releases the slot on every path
    Slots,      \* exports at a time (three)
    Begins,     \* exports in a window (ten)
    MaxDropped  \* bound: commands to Redis that fail

ASSUME ExportAssumption ==
    /\ IsFiniteSet(Exports) /\ Html \subseteq Exports
    /\ Slots \in Nat \ {0} /\ Begins \in Nat \ {0} /\ MaxDropped \in Nat

VARIABLES
    request,   \* request[e]: where the request is
    slots,     \* the key of the running exports, which may be below zero
    begins,    \* the key of the window
    dropped,
    leaked,    \* history: slots in the key that no export will release
    drifted    \* history: the key lost count

slotVars == <<request, slots, begins, dropped, leaked, drifted>>

NoKey == [exists |-> FALSE, count |-> 0, expires |-> FALSE]

\* INCR, DECR, which keep an expiry; EXPIRE, which needs a key.
Changed(key, by) == [key EXCEPT !.exists = TRUE, !.count = @ + by]
Expiring(key) == [key EXCEPT !.expires = key.exists]

SlotsInit ==
    /\ request = [e \in Exports |-> "arrived"]
    /\ slots = NoKey /\ begins = NoKey
    /\ dropped = 0 /\ leaked = 0 /\ drifted = FALSE

Goes(e, from, to) == request[e] = from /\ request' = [request EXCEPT ![e] = to]

\* A request holds a slot from INCR until DECR.
Holds(e) == request[e] \in {"expire", "begin", "first", "return", "prepare", "stream", "release"}
Runs(e) == request[e] \in {"prepare", "stream"}

\* A command fails: it was carried out, or it was not.
Drops == dropped < MaxDropped /\ dropped' = dropped + 1

-----------------------------------------------------------------------------
(* takeExportSlot *)

\* Mutant: one more is let in.
TakesOneMore(count) == IF count = 1 THEN "expire" ELSE IF count > Slots + 1 THEN "return" ELSE "begin"

\* What follows the INCR of the running exports.
Taken(count) == IF count = 1 THEN "expire" ELSE IF count > Slots THEN "return" ELSE "begin"

TakeSlot(e) ==
    /\ Goes(e, "arrived", Taken(slots.count + 1))
    /\ slots' = Changed(slots, 1)
    /\ UNCHANGED <<begins, dropped, leaked, drifted>>

\* The export goes on without having been counted, and is released like others.
TakeSlotDropped(e) ==
    /\ Drops /\ Goes(e, "arrived", "prepare")
    /\ slots' \in {slots, Changed(slots, 1)}
    /\ drifted' = TRUE
    /\ UNCHANGED <<begins, leaked>>

SetSlotExpiry(e) ==
    /\ Goes(e, "expire", "begin")
    /\ \/ slots' = Expiring(slots) /\ UNCHANGED dropped
       \/ Drops /\ UNCHANGED slots
    /\ UNCHANGED <<begins, leaked, drifted>>

\* What follows the INCR of the window.
Begun(count) == IF count = 1 THEN "first" ELSE IF count > Begins THEN "return" ELSE "prepare"

StartWindow(e) ==
    /\ \/ /\ Goes(e, "begin", Begun(begins.count + 1))
          /\ begins' = Changed(begins, 1)
          /\ UNCHANGED dropped
       \/ /\ Drops /\ Goes(e, "begin", "prepare")
          /\ begins' \in {begins, Changed(begins, 1)}
    /\ UNCHANGED <<slots, leaked, drifted>>

SetWindowExpiry(e) ==
    /\ Goes(e, "first", "prepare")
    /\ \/ begins' = Expiring(begins) /\ UNCHANGED dropped
       \/ Drops /\ UNCHANGED begins
    /\ UNCHANGED <<slots, leaked, drifted>>

-----------------------------------------------------------------------------
(* The export *)

\* prepareExport fails or refuses: only the handler of HTML has deferred the
\* release by then.
PrepareFails(e) ==
    /\ Goes(e, "prepare", IF e \in Html THEN "release" ELSE "done")
    /\ leaked' = IF e \in Html THEN leaked ELSE leaked + 1
    /\ UNCHANGED <<slots, begins, dropped, drifted>>

PrepareSucceeds(e) ==
    /\ Goes(e, "prepare", "stream")
    /\ UNCHANGED <<slots, begins, dropped, leaked, drifted>>

\* The rows are written, or the handler returns early.
StreamEnds(e) ==
    /\ Goes(e, "stream", "release")
    /\ UNCHANGED <<slots, begins, dropped, leaked, drifted>>

\* DECR, of a refused request or deferred.
ReleaseSlot(e) ==
    /\ Goes(e, "return", "done") \/ Goes(e, "release", "done")
    /\ \/ slots' = Changed(slots, -1) /\ UNCHANGED <<dropped, leaked>>
       \/ Drops /\ leaked' = leaked + 1 /\ UNCHANGED slots
    /\ UNCHANGED <<begins, drifted>>

\* Two minutes pass.  Exports that still run will release a slot that the key
\* no longer counts.
SlotsExpire ==
    /\ slots.expires
    /\ slots' = NoKey
    /\ leaked' = 0
    /\ drifted' = (drifted \/ \E e \in Exports : Holds(e))
    /\ UNCHANGED <<request, begins, dropped>>

\* Five minutes pass.
WindowExpires ==
    /\ begins.expires
    /\ begins' = NoKey
    /\ UNCHANGED <<request, slots, dropped, leaked, drifted>>

SlotsNext ==
    \/ \E e \in Exports :
          \/ TakeSlot(e) \/ TakeSlotDropped(e) \/ SetSlotExpiry(e)
          \/ StartWindow(e) \/ SetWindowExpiry(e)
          \/ PrepareFails(e) \/ PrepareSucceeds(e) \/ StreamEnds(e) \/ ReleaseSlot(e)
    \/ SlotsExpire \/ WindowExpires

SlotsSpec == SlotsInit /\ [][SlotsNext]_slotVars

-----------------------------------------------------------------------------
(* Properties *)

(* No more exports of a user run than there are slots.  Not once the key has  *)
(* expired under an export that takes longer than two minutes, or an INCR     *)
(* failed: the DECR at the end then takes away a slot of another, and the     *)
(* count may go below zero.                                                   *)
ExportsAreLimited == drifted \/ Cardinality({e \in Exports : Runs(e)}) <= Slots

(* The key counts the exports that hold a slot, and those that ended without  *)
(* releasing it: releaseExportSlot claims that a slot is always released, but *)
(* for CSV, JSON and XLSX an error or a refusal in prepareExport keeps it     *)
(* until the key expires, and so does a DECR that fails.                      *)
SlotsAreReturned == drifted \/ slots.count = Cardinality({e \in Exports : Holds(e)}) + leaked
=============================================================================
