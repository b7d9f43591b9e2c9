----------------------------- MODULE ScanResults -----------------------------
(***************************************************************************)
(* The loop of cc3000_scan.  The device hands out the entries of its table *)
(* one by one; each answer carries the number of networks, and the first   *)
(* one bounds the loop.  A new entry is asked for only after one that was  *)
(* usable: the loop spends the rest of its rounds on the one that was not. *)
(***************************************************************************)
EXTENDS Naturals, Sequences

CONSTANTS Tables   \* tables the device may hold

\* One answer of wlan_ioctl_get_scan_results (external): scan_status is 0
\* (aged), 1 (valid) or 2 (none), isValid the lowest bit of rssi.
Entry(scanStatus, isValid, ssid) ==
  [scanStatus |-> scanStatus, isValid |-> isValid, ssid |-> ssid]

Entries == [scanStatus : 0..2, isValid : BOOLEAN, ssid : Nat]

\* The networks of a table are told apart by their places in it.
ASSUME TablesAssumption ==
  \A table \in Tables : /\ table \in Seq(Entries)
                        /\ \A i \in DOMAIN table : table[i].ssid = i

\* The n-th answer; behind the table there is none.
Answer(table, n) == IF n <= Len(table) THEN table[n] ELSE Entry(2, FALSE, 0)

Usable(e) == e.scanStatus <= 1 /\ e.isValid

\* Mutant: the next entry is asked for before this one is looked at.
ScanRound_Early(table, s) ==
  LET e == Answer(table, s.at + 1)
  IN  IF Usable(e) THEN [at |-> s.at + 1, found |-> Append(s.found, e.ssid)]
                   ELSE [s EXCEPT !.at = @ + 1]

\* One round of the loop: `at' is the entry in scan_res, `found' the list.
ScanRound(table, s) ==
  LET e == Answer(table, s.at)
  IN  IF Usable(e) THEN [at |-> s.at + 1, found |-> Append(s.found, e.ssid)]
                   ELSE s

cc3000_scan(table) ==
  LET After[i \in 0..Len(table)] ==
        IF i = 0 THEN [at |-> 1, found |-> <<>>]
                 ELSE ScanRound(table, After[i - 1])
  IN  After[Len(table)].found

-----------------------------------------------------------------------------
(* Properties *)

UsableIn(table) == {i \in DOMAIN table : Usable(table[i])}
FoundIn(table) == {cc3000_scan(table)[i] : i \in DOMAIN cc3000_scan(table)}

\* A scan never reports a network that is not valid (cc3000_ifc.c:226-247).
OnlyValidFound ==
  \A table \in Tables : \A i \in FoundIn(table) :
    table[i].scanStatus \in {0, 1} /\ table[i].isValid

\* It reports one at most once, in the order of the table.
FoundOnceInOrder ==
  \A table \in Tables : LET found == cc3000_scan(table)
                        IN  \A i, j \in DOMAIN found : i < j => found[i] < found[j]

\* It reports all of them unless an invalid entry comes before a valid one,
\* which hides what is behind it.
AllFoundInFront ==
  \A table \in Tables :
    LET usable == UsableIn(table)
    IN  (\A i \in usable : 1..i \subseteq usable) => FoundIn(table) = usable
==============================================================================
