------------------------------ MODULE Forwarder ------------------------------
(***************************************************************************)
(* forwarder/forwarder.go: which calls are relayed to the local core.  A   *)
(* path is the sequence of its segments, the empty segment standing for    *)
(* two slashes in a row or one at an end of the path.                      *)
(***************************************************************************)
EXTENDS Naturals, Sequences

Methods == {"GET", "PUT", "PATCH", "POST", "DELETE"}

\* What stands for one segment that is not empty in a rule.
Wild == "{}"

Rules(method, paths) == {[method |-> method, path |-> p] : p \in paths}

whitelist ==
  Rules("GET", {<<"version">>, <<"configs">>, <<"memory">>, <<"traffic">>, <<"logs">>,
                <<"rules">>, <<"proxies">>, <<"proxies", Wild>>,
                <<"proxies", Wild, "delay">>, <<"group">>, <<"group", Wild>>,
                <<"group", Wild, "delay">>, <<"providers", "proxies">>,
                <<"providers", "proxies", Wild>>,
                <<"providers", "proxies", Wild, "healthcheck">>,
                <<"providers", "rules">>, <<"connections">>})
  \cup Rules("PUT", {<<"proxies", Wild>>, <<"providers", "proxies", Wild>>,
                     <<"providers", "rules", Wild>>})
  \cup Rules("DELETE", {<<"proxies", Wild>>, <<"connections">>, <<"connections", Wild>>})

\* strings.Trim of the slashes at both ends, then strings.Split.
splitPath(p) ==
  LET named == {i \in DOMAIN p : p[i] # ""}
      first == CHOOSE i \in named : \A j \in named : i <= j
      last == CHOOSE i \in named : \A j \in named : i >= j
  IN  IF named = {} THEN <<>> ELSE SubSeq(p, first, last)

\* Segment by segment.
segMatch(pat, got) ==
  /\ Len(pat) = Len(got)
  /\ \A i \in DOMAIN pat : IF pat[i] = Wild THEN got[i] # "" ELSE pat[i] = got[i]

\* Mutant of Allowed: a path on the list is let through with any method.
AllowedAnyMethod(method, corePath) ==
  \E ru \in whitelist : segMatch(ru.path, splitPath(corePath))

Allowed(method, corePath) ==
  \E ru \in whitelist : ru.method = method /\ segMatch(ru.path, splitPath(corePath))

AllowedReadOnly(method, corePath) == method = "GET" /\ Allowed(method, corePath)
=============================================================================
