-------------------------- MODULE PersistentShell --------------------------
(***************************************************************************)
(* The bash tool (plugins/toolsets/bash/bash.py): all investigations of a  *)
(* process send their commands to one bash, followed by an echo of a       *)
(* delimiter of their own, and read lines up to it.  A command may finish  *)
(* late, never, without a newline at the end of its output, or take the    *)
(* shell with it.  A line is the set of what was printed on it.  The shell *)
(* itself is external.                                                     *)
(***************************************************************************)
EXTENDS Naturals, Sequences, FiniteSets

CONSTANTS
  Commands,         (* one thread runs each *)
  Behaviours,       (* what a command may do *)
  MaxShells         (* bounds the shells started *)

Prints(c)    == <<"output", c>>
Delimiter(c) == <<"end", c>>

KnownCommands == {"lines", "silent", "bare", "slow", "exits"}

ASSUME ShellAssumption ==
  Behaviours \subseteq KnownCommands /\ MaxShells \in Nat /\ "nobody" \notin Commands

Shells == 1 .. MaxShells

VARIABLES
  instance,     (* _instance, 0 when there is none *)
  shell,        (* per shell: its process, its lock, its input, its lines *)
  command       (* per command, the thread that runs it *)

shellVars == <<instance, shell, command>>

Unborn == [proc |-> "unborn", holder |-> "nobody", input |-> <<>>, line |-> {}, lines |-> <<>>]
Blank == [at |-> "new", does |-> "lines", on |-> 0, out |-> {}, code |-> "none", times |-> 0]

ShellInit ==
  /\ instance = 0
  /\ shell = [s \in Shells |-> Unborn]
  /\ command \in {[c \in Commands |-> [Blank EXCEPT !.does = f[c]]] : f \in [Commands -> Behaviours]}

(* proc is "gone" once a call has forgotten the process (_proc = None). *)
Alive(s) == s # 0 /\ shell[s].proc = "alive"

Proceed(c, phase) == command' = [command EXCEPT ![c].at = phase]

Return(c, code) ==
  command' = [command EXCEPT ![c].at = "over", ![c].code = code]

-----------------------------------------------------------------------------
(* PersistentShell.get, under the class's lock. *)
Has(call, s) == [call EXCEPT !.at = "got", !.on = s]

GetShell(c) ==
  /\ command[c].at = "new"
  /\ IF Alive(instance)
     THEN UNCHANGED <<instance, shell>>
     ELSE /\ instance < MaxShells /\ instance' = instance + 1
          /\ shell' = [shell EXCEPT ![instance + 1].proc = "alive"]
  /\ command' = [command EXCEPT ![c] = Has(@, instance')]

(* The first line of run. *)
RunStarts(c) ==
  /\ command[c].at = "got"
  /\ Proceed(c, IF Alive(command[c].on) THEN "waiting" ELSE "fallback")
  /\ UNCHANGED <<instance, shell>>

Piece(what, c) == [what |-> what, of |-> c]

(* Then the lock of the shell; stale lines are drained, and the command    *)
(* and the echo are written.  A shell that died or was forgotten meanwhile *)
(* raises, and the command runs outside.                                   *)
Write(c) ==
  LET s == command[c].on IN
  /\ command[c].at = "waiting" /\ shell[s].holder = "nobody"
  /\ IF shell[s].proc = "alive"
     THEN /\ shell' = [shell EXCEPT ![s].holder = c, ![s].lines = <<>>,
                         ![s].input = @ \o <<Piece("run", c), Piece("echo", c)>>]
          /\ Proceed(c, "reading")
     ELSE Proceed(c, "fallback") /\ UNCHANGED shell
  /\ UNCHANGED instance

(* _fallback: a process of its own, with a timeout of its own. *)
RunOutside(call, c, times) ==
  [call EXCEPT !.at = "over", !.times = times,
               !.code = IF call.does = "slow" THEN "timeout" ELSE "exit",
               !.out = IF call.does \in {"lines", "bare"} THEN {Prints(c)} ELSE {}]

Fallback(c) ==
  /\ command[c].at = "fallback"
  /\ command' = [command EXCEPT ![c] = RunOutside(@, c, command[c].times + 1)]
  /\ UNCHANGED <<instance, shell>>

-----------------------------------------------------------------------------
(* The shell takes the next piece of its input.                            *)

Put(s, printed, ends) ==
  IF ends THEN [s EXCEPT !.input = Tail(@), !.lines = Append(@, s.line \cup printed), !.line = {}]
          ELSE [s EXCEPT !.input = Tail(@), !.line = @ \cup printed]

Ran(s, c, does) ==
  CASE does = "lines" -> Put(s, {Prints(c)}, TRUE)
    [] does = "bare" -> Put(s, {Prints(c)}, FALSE)
    [] does = "slow" -> Put(s, {Prints(c)}, TRUE)
    [] does = "exits" -> [s EXCEPT !.proc = "dead", !.input = <<>>]
    [] OTHER -> Put(s, {}, FALSE)

BashRuns(s) ==
  LET next == Head(shell[s].input) IN
  /\ shell[s].proc = "alive" /\ shell[s].input # <<>>
  /\ IF next.what = "echo"
     THEN /\ shell' = [shell EXCEPT ![s] = Put(@, {Delimiter(next.of)}, TRUE)]
          /\ UNCHANGED command
     ELSE /\ shell' = [shell EXCEPT ![s] = Ran(@, next.of, command[next.of].does)]
          /\ command' = [command EXCEPT ![next.of].times = @ + 1]
  /\ UNCHANGED instance

(* The next line that the reader thread has queued. *)
ReadLine(c) ==
  LET s == command[c].on
      line == Head(shell[s].lines) IN
  /\ command[c].at = "reading" /\ shell[s].lines # <<>>
  /\ IF line = {Delimiter(c)}
     THEN /\ shell' = [shell EXCEPT ![s].lines = Tail(@), ![s].holder = "nobody"]
          /\ Return(c, "exit")
     ELSE /\ shell' = [shell EXCEPT ![s].lines = Tail(@)]
          /\ command' = [command EXCEPT ![c].out = @ \cup line]
  /\ UNCHANGED instance

Forget(s, proc) == [s EXCEPT !.holder = "nobody", !.proc = proc, !.input = <<>>]

(* Mutant: the shell is kept for the next command. *)
TimeoutKeepingShell(c) ==
  LET s == command[c].on IN
  /\ command[c].at = "reading" /\ shell[s].lines = <<>> /\ Alive(s)
  /\ command[c].does = "slow" \/ shell[s].input = <<>>
  /\ shell' = [shell EXCEPT ![s].holder = "nobody"]
  /\ Return(c, "timeout")
  /\ UNCHANGED instance

(* The wall-clock deadline, for a command that is slow or whose delimiter  *)
(* will not come.  The shell is killed.                                    *)
CommandTimesOut(c) ==
  LET s == command[c].on IN
  /\ command[c].at = "reading" /\ shell[s].lines = <<>> /\ Alive(s)
  /\ command[c].does = "slow" \/ shell[s].input = <<>>
  /\ shell' = [shell EXCEPT ![s] = Forget(@, "gone")]
  /\ Return(c, "timeout")
  /\ UNCHANGED instance

(* The end of the output, without the delimiter. *)
ShellDied(c) ==
  LET s == command[c].on IN
  /\ command[c].at = "reading" /\ shell[s].lines = <<>> /\ shell[s].proc = "dead"
  /\ shell' = [shell EXCEPT ![s] = Forget(@, "gone")]
  /\ Return(c, "died")
  /\ UNCHANGED instance

ShellNext ==
  \/ \E c \in Commands : \/ GetShell(c) \/ RunStarts(c) \/ Write(c) \/ Fallback(c)
                         \/ ReadLine(c) \/ CommandTimesOut(c) \/ ShellDied(c)
  \/ \E s \in Shells : BashRuns(s)

ShellSpec == ShellInit /\ [][ShellNext]_shellVars
-----------------------------------------------------------------------------
(* Whoever shares the shell, a command is run at most once, and what is    *)
(* returned for it is its own output.                                      *)
OwnOutputOnce ==
  \A c \in Commands :
    /\ command[c].out \subseteq {Prints(c), Delimiter(c)}
    /\ command[c].times <= 1

(* The delimiter tells when the output of a command is complete: one that  *)
(* finishes does not time out.                                             *)
FinishedAnswers ==
  \A c \in Commands :
    command[c].code = "timeout" => command[c].does = "slow"
=============================================================================
