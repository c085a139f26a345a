------------------------------ MODULE MCShell ------------------------------
(***************************************************************************)
(* A session, and what goes on beside it, in three scripts.  Hosts of an   *)
(* archive of two files, a web UI's, the shell's and one of a single file, *)
(* two of them on one port, while ott adds a new version of the first file *)
(* and one whose chunks are not there.  Two starts of a DHT node on one    *)
(* port and two announcements, the second with another title, as after a   *)
(* timeout, while a peer announces.  And a bit of both.                    *)
(***************************************************************************)
EXTENDS Shell, TLC

CONSTANTS web, shell, single, port1, port2, v1, v2, v3, h1, h2, h3, stale, n1, n2, a1, a2, b1, c1

First == [name |-> v1, sha |-> h1]
Second == [name |-> v2, sha |-> h2]
NewFirst == [name |-> v1, sha |-> h3]
Stale == [name |-> v3, sha |-> stale]

TwoFiles == <<First, Second>>
MCAdded == {NewFirst, Stale}
MCFileArg == [j \in Jobs |-> IF j = single THEN v2 ELSE None]
MCPortOf == [j \in Jobs |-> IF j = shell THEN port2 ELSE port1]
MCScripts == {{web, shell, single, "ott"}, {n1, n2, a1, a2, b1, c1}, {shell, n1, a1, b1}}
MCHostOf == a1 :> "a" @@ a2 :> "a" @@ b1 :> "b" @@ c1 :> "c"
MCTitle == a1 :> "old" @@ a2 :> "new" @@ b1 :> "new" @@ c1 :> "new"
=============================================================================
