------------------------------ MODULE Evidence ------------------------------
(***************************************************************************)
(* The evidence log of a test (banc-host/src/evidence.rs), as operators on *)
(* its state: the retained entries and the number of those dropped.  Every *)
(* method of Evidence holds the mutex while it runs, so each is one step   *)
(* of the module that uses it.                                             *)
(***************************************************************************)
EXTENDS Integers, Sequences

CONSTANTS
    MaxEntries,  \* MAX_ENTRIES
    SafeChars    \* what a file name may keep: ASCII alphanumerics, '-' and '_'

ASSUME CapAssumption == MaxEntries \in Nat \ {0}
ASSUME SafeAssumption == "_" \in SafeChars

NewEvidence == [entries |-> <<>>, dropped |-> 0]

\* A mutant: the oldest entry goes, and is not counted.
RecordUncounted(log, entry) ==
    [log EXCEPT !.entries =
        Append(IF Len(log.entries) >= MaxEntries THEN Tail(log.entries) ELSE log.entries, entry)]

\* At the cap, the oldest entry makes room, and is counted.
Record(log, entry) ==
    LET full == Len(log.entries) >= MaxEntries
    IN  [entries |-> Append(IF full THEN Tail(log.entries) ELSE log.entries, entry),
         dropped |-> IF full THEN log.dropped + 1 ELSE log.dropped]

\* The file: a header if anything was dropped, and every retained entry.
Persisted(log) == [truncated |-> log.dropped > 0, entries |-> log.entries]

\* Test names are sequences of characters here, since two may become one.
Sanitize(test) == [i \in DOMAIN test |-> IF test[i] \in SafeChars THEN test[i] ELSE "_"]
=============================================================================
