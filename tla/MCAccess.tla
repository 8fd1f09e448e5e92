----------------------------- MODULE MCAccess -------------------------------
(***************************************************************************)
(* Values for model checking PasswordFile, Credentials, GeoIP, Csrf and    *)
(* Logs: who may use an instance, and what is written down about it. They  *)
(* share no state, so a step of one tells nothing about the others: a      *)
(* behaviour is one of one of them, picked at the start, instead of all    *)
(* their interleavings.                                                    *)
(***************************************************************************)
EXTENDS PasswordFile, Credentials, GeoIP, Csrf, Logs, TLC

CONSTANTS u1, u2, w1, w2, o1, o2, c1, c2, k1, k2, DE, t1, t2

VARIABLE part

vars == <<pwVars, credVars, geoVars, csrfVars, logsVars, part>>

Init ==
  /\ PasswordInit /\ CredentialInit /\ GeoInit /\ CsrfInit /\ LogsInit
  /\ part \in {"file", "table", "country", "forms", "logs"}

Next ==
  /\ \/ part = "file" /\ PasswordNext /\ UNCHANGED <<credVars, geoVars, csrfVars, logsVars>>
     \/ part = "table" /\ CredentialNext /\ UNCHANGED <<pwVars, geoVars, csrfVars, logsVars>>
     \/ part = "country" /\ GeoNext /\ UNCHANGED <<pwVars, credVars, csrfVars, logsVars>>
     \/ part = "forms" /\ CsrfNext /\ UNCHANGED <<pwVars, credVars, geoVars, logsVars>>
     \/ part = "logs" /\ LogsNext /\ UNCHANGED <<pwVars, credVars, geoVars, csrfVars>>
  /\ UNCHANGED part

Spec == Init /\ [][Next]_vars

\* Identities of a kind are alike. Parts do not meet, so one permutation swaps
\* the workers, the credentials and the tabs together.
Swap == (w1 :> w2) @@ (w2 :> w1) @@ (c1 :> c2) @@ (c2 :> c1) @@ (t1 :> t2) @@ (t2 :> t1)

Alike == {Swap} \cup Permutations({k1, k2})
=============================================================================
