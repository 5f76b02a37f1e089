-------------------------------- MODULE LogRun --------------------------------
(***************************************************************************)
(* The log reducers of the frontend store (src/store/reducers.ts): pure    *)
(* functions from the buffered entries of one tunnel to the next ones. An  *)
(* entry is a record with an index; whatever else it holds is not looked   *)
(* at.                                                                     *)
(***************************************************************************)
EXTENDS Integers, SequencesExt

CONSTANT ViewCap        \* MAX_LOG_LINES of the store

ASSUME ViewCapAssumption == ViewCap \in Nat \ {0}

\* slice(-MAX_LOG_LINES)
Capped(entries) ==
    SubSeq(entries, 1 + (IF Len(entries) > ViewCap THEN Len(entries) - ViewCap ELSE 0),
           Len(entries))

LastIndex(entries) == IF entries = <<>> THEN -1 ELSE entries[Len(entries)].index

\* filter((e) => e.index > index)
Beyond(entries, index) ==
    LET kept[n \in 0..Len(entries)] ==
            CASE n = 0 -> <<>>
              [] n > 0 /\ entries[n].index > index -> Append(kept[n - 1], entries[n])
              [] OTHER -> kept[n - 1]
    IN  kept[Len(entries)]

\* An equal index is a duplicate; a smaller one begins a new run.
ApplyLogEvent(buffered, entry) ==
    CASE entry.index = LastIndex(buffered) -> buffered
      [] entry.index < LastIndex(buffered) -> <<entry>>
      [] entry.index > LastIndex(buffered) -> Capped(Append(buffered, entry))

\* The store after a burst of log events.
ApplyLogEvents(buffered, entries) ==
    LET applied[n \in 0..Len(entries)] ==
            IF n = 0 THEN buffered ELSE ApplyLogEvent(applied[n - 1], entries[n])
    IN  applied[Len(entries)]
==============================================================================
