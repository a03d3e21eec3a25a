------------------------------ MODULE TccPipe ------------------------------
(***************************************************************************)
(* run_tcc of tcsim/tcsim.c: tcsim runs the compiler tcc as a subprocess   *)
(* for every "dev" item that has a tcc configuration.  Three processes     *)
(* take part: a writer that feeds the configuration to tcc through pipe1,  *)
(* tcc itself, and tcsim, which collects the output from pipe2 and then    *)
(* waits for both.                                                         *)
(*                                                                         *)
(* A pipe is the number of bytes in it and the set of processes that have  *)
(* one of its ends open; which ends stay open where is what decides        *)
(* between an end of file and waiting forever.                             *)
(***************************************************************************)
EXTENDS Integers, FiniteSets

CONSTANTS
  InLen,       \* bytes of configuration
  OutMax,      \* most bytes that tcc writes
  Capacity,    \* bytes a pipe holds
  Failing      \* the processes in which something may fail

ASSUME InLenAssumption == InLen \in Nat /\ OutMax \in Nat
ASSUME CapacityAssumption == Capacity \in Nat \ {0}

VARIABLES
  ppc,      \* tcsim: "fork", "read", "wait_writer", "wait_tcc", "return",
            \* "exit" (a child has failed), "failed" (a call of its own has)
  wpc,      \* writer: "none", "write", "exited"
  tpc,      \* tcc: "none", "read", "write", "exited"
  left,     \* bytes the writer still has to write
  pipe1, pipe2,       \* bytes in the pipes
  readers1, writers1, readers2, writers2,  \* who has the ends open
  produced,  \* bytes that tcc has written
  out,       \* bytes that tcsim has collected
  eof,       \* tcc has read all of its input
  wstatus,   \* exit status of the writer
  status     \* exit status of tcc

pipeVars == <<pipe1, pipe2, readers1, writers1, readers2, writers2>>
tccVars == <<ppc, wpc, tpc, left, pipeVars, produced, out, eof, wstatus, status>>

Procs == {"tcsim", "writer", "tcc"}

ASSUME FailingAssumption == Failing \subseteq Procs

PipeInit ==
  /\ ppc = "fork" /\ wpc = "none" /\ tpc = "none"
  /\ left = InLen
  /\ pipe1 = 0 /\ pipe2 = 0
  /\ readers1 = {"tcsim"} /\ writers1 = {"tcsim"}
  /\ readers2 = {"tcsim"} /\ writers2 = {"tcsim"}
  /\ produced = 0 /\ out = 0
  /\ eof = FALSE /\ wstatus = 0 /\ status = 0

(* fork of the writer, which inherits all four ends; then tcsim closes the *)
(* write end of pipe1.                                                     *)
ForkWriter ==
  /\ ppc = "fork" /\ wpc = "none"
  /\ wpc' = "write"
  /\ readers1' = readers1 \cup {"writer"}
  /\ writers1' = {"writer"}
  /\ readers2' = readers2 \cup {"writer"}
  /\ writers2' = writers2 \cup {"writer"}
  /\ UNCHANGED <<ppc, tpc, left, pipe1, pipe2, produced, out, eof, wstatus, status>>

(* Slip: tcsim keeps the write end of pipe2.                               *)
SlipForkTcc ==
  /\ ppc = "fork" /\ wpc # "none" /\ tpc = "none"
  /\ tpc' = "read" /\ ppc' = "read"
  /\ readers1' = readers1 \cup {"tcc"}
  /\ readers2' = readers2 \cup {"tcc"}
  /\ writers2' = writers2 \cup {"tcc"}
  /\ UNCHANGED <<wpc, left, pipe1, pipe2, writers1, produced, out, eof, wstatus, status>>

(* fork of tcc, which inherits the rest; then tcsim closes the write end   *)
(* of pipe2.  The read end of pipe1 stays open in tcsim and the writer.    *)
ForkTcc ==
  /\ ppc = "fork" /\ wpc # "none" /\ tpc = "none"
  /\ tpc' = "read" /\ ppc' = "read"
  /\ readers1' = readers1 \cup {"tcc"}
  /\ readers2' = readers2 \cup {"tcc"}
  /\ writers2' = (writers2 \ {"tcsim"}) \cup {"tcc"}
  /\ UNCHANGED <<wpc, left, pipe1, pipe2, writers1, produced, out, eof, wstatus, status>>

(* All ends of a process are closed when it exits.                         *)
CloseAll(p) ==
  /\ readers1' = readers1 \ {p} /\ writers1' = writers1 \ {p}
  /\ readers2' = readers2 \ {p} /\ writers2' = writers2 \ {p}

(* A call of pipe or fork fails, or the close of the write end of pipe1:   *)
(* tcsim exits without looking after the writer, if there is one.          *)
ForkFails ==
  /\ "tcsim" \in Failing
  /\ ppc = "fork"
  /\ ppc' = "failed"
  /\ CloseAll("tcsim")
  /\ UNCHANGED <<wpc, tpc, left, pipe1, pipe2, produced, out, eof, wstatus, status>>

(* write(pipe1[1]): as much as fits, and blocks when nothing does.         *)
WriterWrite ==
  /\ wpc = "write"
  /\ left > 0
  /\ \E n \in 1..left :
       /\ pipe1 + n <= Capacity
       /\ pipe1' = pipe1 + n
       /\ left' = left - n
  /\ UNCHANGED <<ppc, wpc, tpc, pipe2, readers1, writers1, readers2, writers2,
                 produced, out, eof, wstatus, status>>

WriterExit ==
  /\ wpc = "write"
  /\ left = 0
  /\ wpc' = "exited"
  /\ CloseAll("writer")
  /\ UNCHANGED <<ppc, tpc, left, pipe1, pipe2, produced, out, eof, wstatus, status>>

(* write fails or writes nothing, or the writer is killed.                 *)
WriterFails ==
  /\ "writer" \in Failing
  /\ wpc = "write"
  /\ wpc' = "exited"
  /\ wstatus' = 1
  /\ CloseAll("writer")
  /\ UNCHANGED <<ppc, tpc, left, pipe1, pipe2, produced, out, eof, status>>

(* tcc reads what is there, or sees the end of file once nobody can write. *)
TccRead ==
  /\ tpc = "read"
  /\ \/ /\ pipe1 > 0
        /\ \E n \in 1..pipe1 : pipe1' = pipe1 - n
        /\ UNCHANGED <<tpc, eof>>
     \/ /\ pipe1 = 0 /\ writers1 = {}
        /\ eof' = TRUE
        /\ tpc' = "write"
        /\ UNCHANGED pipe1
  /\ UNCHANGED <<ppc, wpc, left, pipe2, readers1, writers1, readers2, writers2,
                 produced, out, wstatus, status>>

(* An error in the configuration ends tcc where it is, and so does a       *)
(* failure to start it.                                                    *)
TccError ==
  /\ "tcc" \in Failing
  /\ tpc \in {"read", "write"}
  /\ tpc' = "exited"
  /\ status' = 1
  /\ CloseAll("tcc")
  /\ UNCHANGED <<ppc, wpc, left, pipe1, pipe2, produced, out, eof, wstatus>>

TccWrite ==
  /\ tpc = "write"
  /\ produced < OutMax
  /\ pipe2 < Capacity
  /\ pipe2' = pipe2 + 1
  /\ produced' = produced + 1
  /\ UNCHANGED <<ppc, wpc, tpc, left, pipe1, readers1, writers1, readers2, writers2,
                 out, eof, wstatus, status>>

TccExit ==
  /\ tpc = "write"
  /\ tpc' = "exited"
  /\ CloseAll("tcc")
  /\ UNCHANGED <<ppc, wpc, left, pipe1, pipe2, produced, out, eof, wstatus, status>>

(* Slip: an empty pipe is taken for the end of the output.                 *)
SlipParentRead ==
  /\ ppc = "read"
  /\ out' = out + pipe2
  /\ pipe2' = 0
  /\ ppc' = IF pipe2 = 0 THEN "wait_writer" ELSE ppc
  /\ UNCHANGED <<wpc, tpc, left, pipe1, readers1, writers1, readers2, writers2,
                 produced, eof, wstatus, status>>

(* The read loop of tcsim, until nobody can write to pipe2.                *)
ParentRead ==
  /\ ppc = "read"
  /\ \/ /\ pipe2 > 0
        /\ out' = out + pipe2
        /\ pipe2' = 0
        /\ UNCHANGED ppc
     \/ /\ pipe2 = 0 /\ writers2 = {}
        /\ ppc' = "wait_writer"
        /\ UNCHANGED <<out, pipe2>>
  /\ UNCHANGED <<wpc, tpc, left, pipe1, readers1, writers1, readers2, writers2,
                 produced, eof, wstatus, status>>

(* The close of the write end of pipe2, a read or the realloc for what has *)
(* been read fails: tcsim exits without looking after the two children.    *)
ReadFails ==
  /\ "tcsim" \in Failing
  /\ ppc = "read"
  /\ ppc' = "failed"
  /\ pipe2' \in {pipe2, 0}
  /\ CloseAll("tcsim")
  /\ UNCHANGED <<wpc, tpc, left, pipe1, produced, out, eof, wstatus, status>>

(* Slip: the exit status of the writer is not looked at.                   *)
SlipWaitWriter ==
  /\ ppc = "wait_writer"
  /\ wpc = "exited"
  /\ ppc' = "wait_tcc"
  /\ UNCHANGED <<wpc, tpc, left, pipeVars, produced, out, eof, wstatus, status>>

(* A writer that has failed ends tcsim before it has waited for tcc.       *)
WaitWriter ==
  /\ ppc = "wait_writer"
  /\ wpc = "exited"
  /\ ppc' = IF wstatus # 0 THEN "exit" ELSE "wait_tcc"
  /\ UNCHANGED <<wpc, tpc, left, pipeVars, produced, out, eof, wstatus, status>>

(* The status of tcc becomes that of tcsim; no output is an error.         *)
WaitTcc ==
  /\ ppc = "wait_tcc"
  /\ tpc = "exited"
  /\ ppc' = IF status # 0 \/ out = 0 THEN "exit" ELSE "return"
  /\ UNCHANGED <<wpc, tpc, left, pipeVars, produced, out, eof, wstatus, status>>

Parent == ForkWriter \/ ForkTcc \/ ParentRead \/ WaitWriter \/ WaitTcc
Writer == WriterWrite \/ WriterExit
Tcc    == TccRead \/ TccWrite \/ TccExit

Failure == ForkFails \/ ReadFails \/ WriterFails \/ TccError

PipeNext == Parent \/ Writer \/ Tcc \/ Failure

(* The kernel schedules all three processes, and tcc comes to an end.      *)
(* Nothing has to fail.                                                    *)
Scheduled ==
  /\ WF_tccVars(Parent) /\ WF_tccVars(Writer)
  /\ WF_tccVars(TccRead) /\ WF_tccVars(TccExit)

PipeSpec == PipeInit /\ [][PipeNext]_tccVars /\ Scheduled

-----------------------------------------------------------------------------

PipeTypeOK ==
  /\ ppc \in {"fork", "read", "wait_writer", "wait_tcc", "return", "exit", "failed"}
  /\ wpc \in {"none", "write", "exited"}
  /\ tpc \in {"none", "read", "write", "exited"}
  /\ eof \in BOOLEAN
  /\ left \in 0..InLen
  /\ pipe1 \in 0..Capacity /\ pipe2 \in 0..Capacity
  /\ readers1 \cup writers1 \cup readers2 \cup writers2 \subseteq Procs
  /\ produced \in 0..OutMax /\ out \in 0..OutMax
  /\ wstatus \in {0, 1} /\ status \in {0, 1}

(* run_tcc returns only the complete output of a tcc that has read all of  *)
(* its input and succeeded.  The output goes to the lexer as a series of   *)
(* "tc" commands, and a part of it would configure a wrong device.  A      *)
(* writer that fails halfway gives tcc an ordinary end of file, so this    *)
(* rests on the order in which the two exit statuses are looked at.        *)
CompleteOutput ==
  ppc = "return" => out = produced /\ eof /\ left = 0 /\ status = 0

(* Whether run_tcc returns or gives up on a child that has failed, neither *)
(* child is running any more, although a failed writer makes tcsim exit    *)
(* before it waits for tcc: the end of file on pipe2 that ends the read    *)
(* loop means that both have exited.  It says nothing of "failed", where a *)
(* call of tcsim itself fails and it exits at once, with the children      *)
(* alive.                                                                  *)
NoOrphans == ppc \in {"return", "exit"} => wpc = "exited" /\ tpc = "exited"

(* The inductive invariant: who holds which end, that no byte of the       *)
(* output is lost on the way, and that a tcc that has seen the end of its  *)
(* input has seen all of it, unless the writer has failed.                 *)
EndsHeld ==
  /\ "writer" \in writers1 <=> wpc = "write"
  /\ "writer" \in writers2 <=> wpc = "write"
  /\ "tcc" \notin writers1
  /\ "tcc" \in writers2 <=> tpc \in {"read", "write"}
  /\ "tcsim" \in writers1 <=> ppc = "fork" /\ wpc = "none"
  /\ "tcsim" \in writers2 <=> ppc = "fork"
  /\ ppc = "fork" => tpc = "none"
  /\ ppc \notin {"fork", "failed"} => tpc # "none"
  /\ tpc # "none" => wpc # "none"

PipeInv ==
  /\ PipeTypeOK
  /\ EndsHeld
  /\ ppc # "failed" => out + pipe2 = produced
  /\ out + pipe2 <= produced
  /\ wpc = "exited" /\ wstatus = 0 => left = 0
  /\ eof => wpc = "exited"
  /\ tpc = "write" => eof
  /\ tpc = "exited" /\ status = 0 => eof
  /\ ppc \in {"wait_writer", "wait_tcc", "return", "exit"} => writers2 = {} /\ pipe2 = 0
  /\ ppc \in {"wait_tcc", "return"} => wstatus = 0
  /\ ppc = "return" => status = 0

(* tcc has failed, and the writer waits for room in a pipe that nobody     *)
(* reads any more.                                                         *)
Cut == status = 1 /\ wpc = "write" /\ left > 0 /\ pipe1 = Capacity

(* run_tcc is left, by returning or because tcsim exits.                   *)
Over == ppc \in {"return", "exit", "failed"}

(* run_tcc comes to an end, whatever fails in the three processes.  Only   *)
(* one thing can keep it from that: tcc has failed, and the writer, which  *)
(* holds the read end of its own pipe, waits forever to pass on what no    *)
(* longer fits.                                                            *)
EndsUnlessCut == <>Over \/ <>[]Cut

=============================================================================
