---------------------------- MODULE FillJournal ----------------------------
(***************************************************************************)
(* The memory-mapped fill journal (journal/FillJournal.h) as operators on  *)
(* the image of its file: a header and a fixed array of records.  A fill   *)
(* is a number, 0 the zeroed record.  "none" is a file that is missing or  *)
(* empty, "zeroed" one that was sized but whose header was not written,    *)
(* "partial" one whose header has its magic and not yet its capacity.      *)
(* Every process opens the journal with the same capacity, and the stores  *)
(* to the mapping are made in program order.                               *)
(***************************************************************************)
EXTENDS Integers, Sequences

CONSTANT JournalCapacity

ASSUME JournalAssumption == JournalCapacity \in Nat \ {0}

RecordIndices == 1 .. JournalCapacity

Journal(fills) ==
  [header : {"none", "zeroed", "partial", "valid"}, count : 0 .. JournalCapacity,
   records : [RecordIndices -> fills \cup {0}]]

EmptyJournal == [header |-> "none", count |-> 0, records |-> [i \in RecordIndices |-> 0]]

\* openMapping: a file that is too short is extended with zeros.
openMapping(j) == IF j.header = "none" THEN [j EXCEPT !.header = "zeroed"] ELSE j

\* initializeOrValidateHeader: what it writes into a new file up to the magic,
\* and with the capacity; what makes it throw for another file.
initHeader == [EmptyJournal EXCEPT !.header = "partial"]
storeCapacity(j) == [j EXCEPT !.header = "valid"]
HeaderInvalid(j) == j.header # "valid" \/ j.count > JournalCapacity

Full_mutOffByOne(j) == j.count > JournalCapacity

\* append: the full test, then its two stores.
Full(j) == j.count >= JournalCapacity
storeRecord(j, fill) == [j EXCEPT !.records[j.count + 1] = fill]
storeCount(j) == [j EXCEPT !.count = @ + 1]

\* replay: tests the magic and the count, then returns the counted records.
ReplayThrows(j) == j.header \in {"none", "zeroed"}
replay(j) == SubSeq(j.records, 1, j.count)

HeaderAge == [none |-> 0, zeroed |-> 1, partial |-> 2, valid |-> 3]

\* What the disk may hold of an image that is written back page by page: the
\* header as it was at some moment since the last msync, and every record as
\* of that msync or newer.
HeadersSince(synced, current) ==
  {h \in {"none", "zeroed", "partial", "valid"} \X (synced.count .. current.count) :
     /\ HeaderAge[synced.header] <= HeaderAge[h[1]]
     /\ HeaderAge[h[1]] <= HeaderAge[current.header]
     /\ h[1] = "valid" \/ h[2] = 0}

WrittenBack(synced, current) ==
  {[header |-> h[1], count |-> h[2],
    records |-> [i \in RecordIndices |-> IF i \in newer THEN current.records[i]
                                                        ELSE synced.records[i]]] :
     h \in HeadersSince(synced, current), newer \in SUBSET RecordIndices}
=============================================================================
