------------------------------ MODULE TXTRecord ------------------------------
(***************************************************************************)
(* discovery/discovery.go: the TXT record of an advertisement.  An entry   *)
(* is a key and a value; one without an equals sign is skipped by the code *)
(* before anything is decided, and left out.  Values are atoms, but for    *)
(* ver, a number or something that is not one.                             *)
(***************************************************************************)
EXTENDS Integers, Sequences

txtKeyOrder == <<"app", "id", "name", "ver", "fp">>
Keys == {txtKeyOrder[i] : i \in DOMAIN txtKeyOrder}

\* Encode: the fields in canonical order.
EncodeTXT(t) == [i \in DOMAIN txtKeyOrder |->
                   [key |-> txtKeyOrder[i], value |-> t[txtKeyOrder[i]]]]

\* Of entries with the same key the last one stays in the map.
ValueOf(entries, k) ==
  LET i == CHOOSE x \in DOMAIN entries :
             /\ entries[x].key = k
             /\ \A y \in DOMAIN entries : entries[y].key = k => y <= x
  IN  entries[i].value

\* DecodeTXT: in any order, but complete, and with a version Atoi takes; the set
\* of its results is empty when it returns an error.
DecodeTXT(entries) ==
  IF Keys \subseteq {entries[i].key : i \in DOMAIN entries}
  THEN {t \in {[k \in Keys |-> ValueOf(entries, k)]} : t.ver \in Int}
  ELSE {}
=============================================================================
