------------------------------ MODULE Identity ------------------------------
(***************************************************************************)
(* load_or_create_identity() of src/node.py: the key file                  *)
(* ~/.dura_identity.key, which every command, shell session and web        *)
(* request of a user reads, and the first one creates.  Calls run in       *)
(* threads and processes of their own and may be killed.                   *)
(*                                                                         *)
(* open(.., 'w') empties the file and the text is written when it is       *)
(* closed, at offset 0.  The text of an empty key is shorter than that of  *)
(* a real one and, written last, leaves the end of the other one behind.   *)
(***************************************************************************)
EXTENDS Integers

CONSTANTS
  Calls,       \* calls; the key that Identity('local') generates is named after its call
  Legacy,      \* a key in a file of 32 raw bytes, from before the armor
  NoKey,       \* the key of an empty file
  Unset,       \* no key
  Concurrent,  \* whether calls may overlap
  MaxCrashes   \* bound on calls that are killed

ASSUME NamesAssumption ==
  /\ {Legacy, NoKey, Unset} \cap Calls = {}
  /\ Legacy # NoKey /\ Legacy # Unset /\ NoKey # Unset
ASSUME BoundsAssumption == Concurrent \in BOOLEAN /\ MaxCrashes \in Nat

RealKeys == Calls \cup {Legacy}

VARIABLES
  keyFile,   \* what ~/.dura_identity.key holds
  original,  \* the key it held before the first call, or None
  callPc,    \* where each call is
  key,       \* key_bytes of each call
  crashes,   \* calls that were killed
  calm       \* no call has overlapped another or been killed (for the properties)

keyVars == <<keyFile, original, callPc, key, crashes, calm>>

Absent == [kind |-> "absent", key |-> Unset]
EmptyFile == [kind |-> "empty", key |-> NoKey]
Raw(k) == [kind |-> "raw", key |-> k]
Armored(k) == [kind |-> "armored", key |-> k]
Mixed == [kind |-> "mixed", key |-> NoKey]  \* decodes, but not to 32 bytes
Files == {Absent, EmptyFile, Mixed} \cup {Raw(Legacy)} \cup {Armored(k) : k \in RealKeys \cup {NoKey}}

Ended == {"returned", "raised", "killed"}

KeyTypeOK ==
  /\ keyFile \in Files
  /\ original \in {Legacy, Unset}
  /\ callPc \in [Calls -> {"new", "read", "open", "write", "key"} \cup Ended]
  /\ key \in [Calls -> RealKeys \cup {NoKey, Unset}]
  /\ crashes \in 0..MaxCrashes
  /\ calm \in BOOLEAN

KeyInit ==
  /\ keyFile \in {Absent, Raw(Legacy)}
  /\ original = IF keyFile = Absent THEN Unset ELSE Legacy
  /\ callPc = [c \in Calls |-> "new"]
  /\ key = [c \in Calls |-> Unset]
  /\ crashes = 0
  /\ calm = TRUE

Running == {c \in Calls : callPc[c] \notin {"new"} \cup Ended}

\* os.path.exists; without a file the call's own new key is the one to save.
Start(c) ==
  /\ callPc[c] = "new" /\ (Concurrent \/ Running = {})
  /\ IF keyFile = Absent
     THEN callPc' = [callPc EXCEPT ![c] = "open"] /\ key' = [key EXCEPT ![c] = c]
     ELSE callPc' = [callPc EXCEPT ![c] = "read"] /\ UNCHANGED key
  /\ calm' = (calm /\ Running = {})
  /\ UNCHANGED <<keyFile, original, crashes>>

\* Mutant of Read: the armor is written anew whatever the file holds.
ReadAndRewrite(c) ==
  /\ callPc[c] = "read"
  /\ key' = [key EXCEPT ![c] = keyFile.key]
  /\ callPc' = [callPc EXCEPT ![c] = "open"]
  /\ UNCHANGED <<keyFile, original, crashes, calm>>
\* Mutant of Read: an old file's key is replaced by the new one.
ReadAndForget(c) ==
  /\ callPc[c] = "read"
  /\ key' = [key EXCEPT ![c] = IF keyFile.kind = "raw" THEN c ELSE keyFile.key]
  /\ callPc' = [callPc EXCEPT ![c] = IF keyFile.kind \in {"raw", "empty"} THEN "open" ELSE "key"]
  /\ UNCHANGED <<keyFile, original, crashes, calm>>
\* What is not armored is taken for a raw key, an empty file too.
Read(c) ==
  /\ callPc[c] = "read"
  /\ key' = [key EXCEPT ![c] = keyFile.key]
  /\ callPc' = [callPc EXCEPT ![c] = IF keyFile.kind \in {"raw", "empty"} THEN "open" ELSE "key"]
  /\ UNCHANGED <<keyFile, original, crashes, calm>>

OpenToWrite(c) ==
  /\ callPc[c] = "open"
  /\ keyFile' = EmptyFile
  /\ callPc' = [callPc EXCEPT ![c] = "write"]
  /\ UNCHANGED <<original, key, crashes, calm>>

\* The text is written as the file is closed; then chmod.
Write(c) ==
  /\ callPc[c] = "write"
  /\ keyFile' = IF key[c] = NoKey /\ (keyFile = Mixed \/ keyFile.key \in RealKeys) THEN Mixed ELSE Armored(key[c])
  /\ callPc' = [callPc EXCEPT ![c] = "key"]
  /\ UNCHANGED <<original, key, crashes, calm>>

\* from_private_bytes raises ValueError for what is not 32 bytes.
Return(c) ==
  /\ callPc[c] = "key"
  /\ callPc' = [callPc EXCEPT ![c] = IF key[c] = NoKey THEN "raised" ELSE "returned"]
  /\ UNCHANGED <<keyFile, original, key, crashes, calm>>

Kill(c) ==
  /\ c \in Running /\ crashes < MaxCrashes
  /\ crashes' = crashes + 1
  /\ callPc' = [callPc EXCEPT ![c] = "killed"]
  /\ calm' = FALSE
  /\ UNCHANGED <<keyFile, original, key>>

KeyNext == \E c \in Calls :
  Start(c) \/ Read(c) \/ OpenToWrite(c) \/ Write(c) \/ Return(c) \/ Kill(c)
KeySpec == KeyInit /\ [][KeyNext]_keyVars

(***************************************************************************)
(* Properties.                                                             *)
(***************************************************************************)
Returned == {c \in Calls : callPc[c] = "returned"}
Raised == {c \in Calls : callPc[c] = "raised"}

\* Calls that neither overlap nor are killed return one key, which is the
\* one that the file held before there was an armor, and never fail.
StableKey ==
  calm => /\ Raised = {}
          /\ \A c, d \in Returned : key[c] = key[d]
          /\ original # Unset => \A c \in Returned : key[c] = original

\* The file holds an armored key and no call is about to write.
Settled ==
  /\ keyFile \in {Armored(k) : k \in RealKeys}
  /\ \A c \in Running : callPc[c] \in {"read", "key"}

\* However it got there: once an armored key is in the file and no call is
\* about to write, no call of any number, killed or not, changes the file.
SettledForGood == [][Settled => Settled' /\ keyFile' = keyFile]_keyVars

(***************************************************************************)
(* What docstring and comments say and the code does not do.               *)
(***************************************************************************)

\* "A real node needs a stable pubkey across runs".
OneKey == \A c, d \in Returned : key[c] = key[d]

\* "the underlying private key bytes (and therefore the pubkey) are
\* untouched": an old file's key can be loaded after a call was killed.
OldKeyLoads == original # Unset => Raised = {}
=============================================================================
