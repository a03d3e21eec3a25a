------------------------------ MODULE Commands -----------------------------
(***************************************************************************)
(* Life and death of struct command in tcsim: reference counts             *)
(* (tcsim/command.c), command variables (tcsim/var.c) and the grammar      *)
(* actions that build, store and run commands (tcsim/cfg.y).               *)
(*                                                                         *)
(* A command is a leaf (tc, send, poll, echo) or an "every" that owns      *)
(* another command.  One command can be used by variables, by "every"      *)
(* commands around it and by running struct every objects at the same      *)
(* time.                                                                   *)
(***************************************************************************)
EXTENDS Integers, Sequences, FiniteSets

CONSTANTS
  Cmds,      \* addresses for struct command
  Dscs,      \* addresses for struct every
  Vars,      \* names of variables
  NULL,
  MaxLost    \* bound: references that overwritten variables leave behind

ASSUME NullAssumption == NULL \notin Cmds

VARIABLES
  live,         \* commands that are allocated
  ref,          \* cmd->ref
  child,        \* cmd->u.every.cmd, NULL for a leaf
  var,          \* variable -> command
  lost,         \* history: references of overwritten variables to a command
  dsc,          \* dsc->cmd of a struct every, NULL if there is none
  armed,        \* the struct every objects whose timer is pending
  cur,          \* the value of the rule command: a reference of the parser
  calls,        \* calls to be made, innermost first
  terminating

cmdVars == <<live, ref, child, var, lost, dsc, armed, cur, calls, terminating>>

Run(c)   == [fn |-> "cmd_run", cmd |-> c, dsc |-> NULL]
Free(c)  == [fn |-> "cmd_free", cmd |-> c, dsc |-> NULL]
Do(d)    == [fn |-> "do_every", cmd |-> NULL, dsc |-> d]
After(d) == [fn |-> "after", cmd |-> NULL, dsc |-> d]

CmdInit ==
  /\ live = {}
  /\ ref = [c \in Cmds |-> 0]
  /\ child = [c \in Cmds |-> NULL]
  /\ var = [v \in Vars |-> NULL]
  /\ lost = [c \in Cmds |-> 0]
  /\ dsc = [d \in Dscs |-> NULL]
  /\ armed = {}
  /\ cur = NULL
  /\ calls = << >>
  /\ terminating = FALSE

Quiet == calls = << >>

(* cmd_alloc: ref is one.                                                  *)
Alloc(c, k) ==
  /\ c \notin live
  /\ live' = live \cup {c}
  /\ ref' = [ref EXCEPT ![c] = 1]
  /\ child' = [child EXCEPT ![c] = k]
  /\ lost' = [lost EXCEPT ![c] = 0]

(* cmd_tc, cmd_send, cmd_poll, cmd_echo *)
ParseLeaf(c) ==
  /\ Quiet /\ cur = NULL
  /\ Alloc(c, NULL)
  /\ cur' = c
  /\ UNCHANGED <<var, dsc, armed, calls, terminating>>

(* "command $v": cmd_clone                                                 *)
ParseVariable(v) ==
  /\ Quiet /\ cur = NULL
  /\ var[v] # NULL
  /\ ref' = [ref EXCEPT ![var[v]] = @ + 1]
  /\ cur' = var[v]
  /\ UNCHANGED <<live, child, var, lost, dsc, armed, calls, terminating>>

(* "every ... command": the reference to the command moves into the every. *)
ParseEvery(c) ==
  /\ Quiet /\ cur # NULL
  /\ ~terminating
  /\ Alloc(c, cur)
  /\ cur' = c
  /\ UNCHANGED <<var, dsc, armed, calls, terminating>>

(* Slip: the old command of the variable is freed, as in the line that     *)
(* set_var has commented out.                                              *)
SlipSetVar(v) ==
  /\ Quiet /\ cur # NULL
  /\ var' = [var EXCEPT ![v] = cur]
  /\ calls' = IF var[v] = NULL THEN << >> ELSE <<Free(var[v]), Free(var[v])>>
  /\ cur' = NULL
  /\ UNCHANGED <<live, ref, child, lost, dsc, armed, terminating>>

(* "command $v = command": the reference moves into the variable; that of  *)
(* the old value is never given up.                                        *)
SetVar(v) ==
  /\ Quiet /\ cur # NULL
  /\ IF var[v] = NULL
       THEN UNCHANGED lost
       ELSE lost[var[v]] < MaxLost /\ lost' = [lost EXCEPT ![var[v]] = @ + 1]
  /\ var' = [var EXCEPT ![v] = cur]
  /\ cur' = NULL
  /\ UNCHANGED <<live, ref, child, dsc, armed, calls, terminating>>

(* A command as an item: run it, unless only the syntax is checked, then   *)
(* free it.                                                                *)
CommandItem ==
  /\ Quiet /\ cur # NULL
  /\ calls' \in {<<Run(cur), Free(cur)>>, <<Free(cur)>>}
  /\ cur' = NULL
  /\ UNCHANGED <<live, ref, child, var, lost, dsc, armed, terminating>>

End ==
  /\ Quiet /\ cur = NULL
  /\ ~terminating
  /\ terminating' = TRUE
  /\ UNCHANGED <<live, ref, child, var, lost, dsc, armed, cur, calls>>

-----------------------------------------------------------------------------

Call(fn) == calls # << >> /\ Head(calls).fn = fn

(* cmd_run of a leaf does not touch any struct command.                    *)
RunLeaf ==
  /\ Call("cmd_run")
  /\ child[Head(calls).cmd] = NULL
  /\ calls' = Tail(calls)
  /\ UNCHANGED <<live, ref, child, var, lost, dsc, armed, cur, terminating>>

(* Slip: add_every without cmd_clone.                                      *)
SlipRunEvery(d) ==
  /\ Call("cmd_run")
  /\ child[Head(calls).cmd] # NULL
  /\ dsc[d] = NULL
  /\ dsc' = [dsc EXCEPT ![d] = child[Head(calls).cmd]]
  /\ calls' = <<Do(d)>> \o Tail(calls)
  /\ UNCHANGED <<live, ref, child, var, lost, armed, cur, terminating>>

(* cmd_run of an every: a struct every with a reference of its own.        *)
RunEvery(d) ==
  /\ Call("cmd_run")
  /\ LET k == child[Head(calls).cmd]
     IN  /\ k # NULL
         /\ dsc[d] = NULL
         /\ ref' = [ref EXCEPT ![k] = @ + 1]
         /\ dsc' = [dsc EXCEPT ![d] = k]
  /\ calls' = <<Do(d)>> \o Tail(calls)
  /\ UNCHANGED <<live, child, var, lost, armed, cur, terminating>>

Release(d) ==
  /\ dsc' = [dsc EXCEPT ![d] = NULL]
  /\ calls' = <<Free(dsc[d])>> \o Tail(calls)
  /\ UNCHANGED armed

(* do_every: past its end it gives up its command, else it runs it.        *)
DoEvery ==
  /\ Call("do_every")
  /\ LET d == Head(calls).dsc
     IN  \/ Release(d)
         \/ /\ calls' = <<Run(dsc[d]), After(d)>> \o Tail(calls)
            /\ UNCHANGED <<dsc, armed>>
  /\ UNCHANGED <<live, ref, child, var, lost, cur, terminating>>

(* ... and then it stops if END was seen, or waits for its timer.          *)
AfterEvery ==
  /\ Call("after")
  /\ LET d == Head(calls).dsc
     IN  IF terminating
           THEN Release(d)
           ELSE /\ armed' = armed \cup {d}
                /\ calls' = Tail(calls)
                /\ UNCHANGED dsc
  /\ UNCHANGED <<live, ref, child, var, lost, cur, terminating>>

(* Slip: the command inside an every is not freed with it.                 *)
SlipCmdFree ==
  /\ Call("cmd_free")
  /\ LET c == Head(calls).cmd
     IN  /\ ref' = [ref EXCEPT ![c] = @ - 1]
         /\ live' = IF ref[c] > 1 THEN live ELSE live \ {c}
  /\ calls' = Tail(calls)
  /\ UNCHANGED <<child, var, lost, dsc, armed, cur, terminating>>

(* cmd_free: the last reference frees the command and what it owns.        *)
CmdFree ==
  /\ Call("cmd_free")
  /\ LET c == Head(calls).cmd
     IN  /\ ref' = [ref EXCEPT ![c] = @ - 1]
         /\ IF ref[c] > 1
              THEN live' = live /\ calls' = Tail(calls)
              ELSE /\ live' = live \ {c}
                   /\ calls' = IF child[c] = NULL THEN Tail(calls)
                               ELSE <<Free(child[c])>> \o Tail(calls)
  /\ UNCHANGED <<child, var, lost, dsc, armed, cur, terminating>>

(* The timer of a struct every expires, at any time the script allows.     *)
Timer(d) ==
  /\ Quiet /\ cur = NULL
  /\ d \in armed
  /\ armed' = armed \ {d}
  /\ calls' = <<Do(d)>>
  /\ UNCHANGED <<live, ref, child, var, lost, dsc, cur, terminating>>

CmdNext ==
  \/ \E c \in Cmds : ParseLeaf(c) \/ ParseEvery(c)
  \/ \E v \in Vars : ParseVariable(v) \/ SetVar(v)
  \/ CommandItem \/ End
  \/ RunLeaf \/ DoEvery \/ AfterEvery \/ CmdFree
  \/ \E d \in Dscs : RunEvery(d) \/ Timer(d)

CmdSpec == CmdInit /\ [][CmdNext]_cmdVars

-----------------------------------------------------------------------------

(* The calls that will give up c, counted from the bottom of the stack.    *)
FreesOf(stack, c) == {Len(stack) - k : k \in {i \in 1..Len(stack) : stack[i] = Free(c)}}

(* Everything that owns a reference to c.                                  *)
Owners(c) ==
  {<<"var", v>> : v \in {w \in Vars : var[w] = c}} \cup
  {<<"every", p>> : p \in {q \in live : child[q] = c}} \cup
  {<<"dsc", d>> : d \in {e \in Dscs : dsc[e] = c}} \cup
  {<<"free", n>> : n \in FreesOf(calls, c)} \cup
  (IF cur = c THEN {<<"parser", c>>} ELSE {})

(* The reference count is exact: it is the number of places that will give *)
(* the command up, plus those overwritten variables never give up.         *)
RefsExact ==
  \A c \in live : ref[c] = Cardinality(Owners(c)) + lost[c] /\ ref[c] > 0

(* Nothing that will be used again has been freed: variables, commands     *)
(* inside commands, running every objects, and commands about to run.      *)
NoDangling ==
  /\ \A v \in Vars : var[v] # NULL => var[v] \in live
  /\ \A c \in live : child[c] # NULL => child[c] \in live
  /\ \A d \in Dscs : dsc[d] # NULL => dsc[d] \in live
  /\ \A i \in 1..Len(calls) : calls[i].cmd # NULL => calls[i].cmd \in live
  /\ cur # NULL => cur \in live

(* After END, once every timer has run, only variables keep commands.      *)
EndFrees ==
  terminating /\ Quiet /\ cur = NULL /\ armed = {} =>
    \A c \in live : lost[c] > 0
                    \/ (\E v \in Vars : var[v] = c)
                    \/ \E p \in live : child[p] = c

-----------------------------------------------------------------------------
(* The inductive invariant *)

Calls ==
  [fn : {"cmd_run", "cmd_free"}, cmd : Cmds, dsc : {NULL}] \cup
  [fn : {"do_every", "after"}, cmd : {NULL}, dsc : Dscs]

CmdTypeOK ==
  /\ live \subseteq Cmds
  /\ ref \in [Cmds -> Nat]
  /\ child \in [Cmds -> Cmds \cup {NULL}]
  /\ var \in [Vars -> Cmds \cup {NULL}]
  /\ lost \in [Cmds -> Nat]
  /\ dsc \in [Dscs -> Cmds \cup {NULL}]
  /\ armed \subseteq Dscs
  /\ cur \in Cmds \cup {NULL}
  /\ calls \in Seq(Calls)
  /\ terminating \in BOOLEAN

OfEvery(call) == call.fn \in {"do_every", "after"}

(* A command that is about to run is the innermost call and is not counted *)
(* for: it lives on the reference of the call behind it.                   *)
RunsAreBacked ==
  \A i \in 1..Len(calls) : calls[i].fn = "cmd_run" =>
    /\ i = 1 /\ 1 < Len(calls)
    /\ \/ calls[2] = Free(calls[1].cmd)
       \/ calls[2].fn = "after" /\ dsc[calls[2].dsc] = calls[1].cmd

(* A struct every is either on the stack of calls, once, or has its timer  *)
(* pending.                                                                *)
EverysAreHeld ==
  /\ \A i \in 1..Len(calls) : OfEvery(calls[i]) =>
       dsc[calls[i].dsc] # NULL /\ calls[i].dsc \notin armed
  /\ \A i, j \in 1..Len(calls) :
       OfEvery(calls[i]) /\ OfEvery(calls[j]) /\ calls[i].dsc = calls[j].dsc => i = j
  /\ \A d \in armed : dsc[d] # NULL
  /\ \A d \in Dscs : dsc[d] # NULL =>
       d \in armed \/ \E i \in 1..Len(calls) : OfEvery(calls[i]) /\ calls[i].dsc = d

CmdInv ==
  /\ CmdTypeOK
  /\ RefsExact
  /\ NoDangling
  /\ RunsAreBacked
  /\ EverysAreHeld
  /\ \A c \in live : IsFiniteSet(Owners(c))
  /\ calls # << >> => cur = NULL

=============================================================================
