---------------------------- MODULE InventoryAtomic ----------------------------
(***************************************************************************)
(* What the inventory store promises its callers: every call is answered   *)
(* once; a command changes all of its records in one step, each from the   *)
(* version it names, or none of them; a refused command is remembered.     *)
(***************************************************************************)
EXTENDS Naturals

CONSTANTS Calls, Records

VARIABLES
  version,        \* of each record; 0: there is none
  commands,       \* the commands with a stored result
  changes,        \* per call: the version it names of each record it changes
  answer          \* per call: none yet, or how it ended

AtomicInit == answer = [c \in Calls |-> "none"]

Ends(c, how) == answer' = [answer EXCEPT ![c] = how]

Commit(c, command) ==
  LET from == changes[c] IN
  /\ answer[c] = "none"
  /\ Ends(c, "committed")
  /\ \A r \in DOMAIN from : version[r] = from[r]
  /\ version' = [r \in Records |-> IF r \in DOMAIN from THEN from[r] + 1
                                   ELSE version[r]]
  /\ command \notin commands
  /\ commands' \in {commands, commands \cup {command}}

Refuse(c, command) ==
  /\ answer[c] = "none"
  /\ Ends(c, "refused")
  /\ commands' = commands \cup {command}
  /\ UNCHANGED version

\* A throw, a repeated command and a read change nothing.
Leave(c) ==
  /\ answer[c] = "none"
  /\ \E how \in {"threw", "replayed", "read"} : Ends(c, how)
  /\ UNCHANGED <<version, commands>>
=============================================================================
