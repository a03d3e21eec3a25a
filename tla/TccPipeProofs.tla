---------------------------- MODULE TccPipeProofs --------------------------
(***************************************************************************)
(* Proofs about TccPipe, for every length of the configuration and of the  *)
(* output, every capacity of a pipe and any failing processes: run_tcc     *)
(* returns complete output or none, and leaves no process behind unless a  *)
(* call of tcsim itself fails.                                             *)
(***************************************************************************)
EXTENDS TccPipe, TLAPS

(* Who holds which end of the two pipes, and where the bytes are, is       *)
(* preserved by every step of the three processes.                         *)
THEOREM PipeInvariant == PipeSpec => []PipeInv
<1> USE InLenAssumption, CapacityAssumption
<1>1. PipeInit => PipeInv
  <2> SUFFICES ASSUME PipeInit PROVE PipeInv
    OBVIOUS
  <2>1. PipeTypeOK
    <3>1. readers1 \cup writers1 \cup readers2 \cup writers2 \subseteq Procs
      BY DEF PipeInit, Procs
    <3>2. /\ left \in 0..InLen
          /\ pipe1 \in 0..Capacity /\ pipe2 \in 0..Capacity
          /\ produced \in 0..OutMax /\ out \in 0..OutMax
      BY DEF PipeInit
    <3>3. eof \in BOOLEAN /\ wstatus \in {0, 1} /\ status \in {0, 1}
      BY DEF PipeInit
    <3>4. ppc = "fork" /\ wpc = "none" /\ tpc = "none"
      BY DEF PipeInit
    <3> QED BY <3>1, <3>2, <3>3, <3>4 DEF PipeTypeOK
  <2>2. EndsHeld
    BY DEF PipeInit, EndsHeld
  <2>3. out + pipe2 = produced
    BY DEF PipeInit
  <2> QED BY <2>1, <2>2, <2>3 DEF PipeInit, PipeInv
<1>2. PipeInv /\ [PipeNext]_tccVars => PipeInv'
  <2> SUFFICES ASSUME PipeInv, [PipeNext]_tccVars PROVE PipeInv'
    OBVIOUS
  <2> USE DEF PipeInv, PipeTypeOK, EndsHeld, Procs
  <2>1. CASE ForkWriter
    BY <2>1 DEF ForkWriter
  <2>2. CASE ForkTcc
    BY <2>2 DEF ForkTcc
  <2>3. CASE ParentRead
    <3>1. CASE pipe2 > 0
      BY <2>3, <3>1 DEF ParentRead
    <3>2. CASE ~(pipe2 > 0)
      BY <2>3, <3>2 DEF ParentRead
    <3> QED BY <3>1, <3>2
  <2>4. CASE WaitWriter
    BY <2>4 DEF WaitWriter, pipeVars
  <2>5. CASE WaitTcc
    BY <2>5 DEF WaitTcc, pipeVars
  <2>6. CASE WriterWrite
    BY <2>6 DEF WriterWrite
  <2>7. CASE WriterExit
    BY <2>7 DEF WriterExit, CloseAll
  <2>8. CASE TccRead
    <3>1. CASE pipe1 > 0
      BY <2>8, <3>1 DEF TccRead
    <3>2. CASE ~(pipe1 > 0)
      BY <2>8, <3>2 DEF TccRead
    <3> QED BY <3>1, <3>2
  <2>9. CASE TccWrite
    BY <2>9 DEF TccWrite
  <2>10. CASE TccExit
    BY <2>10 DEF TccExit, CloseAll
  <2>11. CASE TccError
    BY <2>11 DEF TccError, CloseAll
  <2>12. CASE ForkFails
    BY <2>12 DEF ForkFails, CloseAll
  <2>13. CASE ReadFails
    <3>0. out \in Nat /\ produced \in Nat /\ pipe2 \in Nat /\ out + pipe2 <= produced /\ Capacity \in Nat
      OBVIOUS
    <3>1. pipe2' \in 0..Capacity /\ out + pipe2' <= produced
      <4>1. CASE pipe2' = pipe2
        BY <3>0, <4>1
      <4>2. CASE pipe2' = 0
        BY <3>0, <4>2
      <4> QED BY <2>13, <4>1, <4>2 DEF ReadFails
    <3>2. PipeTypeOK'
      BY <2>13, <3>1 DEF ReadFails, CloseAll
    <3>3. EndsHeld'
      BY <2>13 DEF ReadFails, CloseAll
    <3> QED BY <2>13, <3>1, <3>2, <3>3 DEF ReadFails
  <2>14. CASE WriterFails
    BY <2>14 DEF WriterFails, CloseAll
  <2>15. CASE UNCHANGED tccVars
    BY <2>15 DEF tccVars, pipeVars
  <2> QED BY <2>1, <2>2, <2>3, <2>4, <2>5, <2>6, <2>7, <2>8, <2>9, <2>10, <2>11, <2>12,
             <2>13, <2>14, <2>15
          DEF PipeNext, Parent, Writer, Tcc, Failure
<1> QED BY <1>1, <1>2, PTL DEF PipeSpec

(* run_tcc returns only complete output of a tcc that was given all of the *)
(* configuration and was successful.                                       *)
THEOREM OutputComplete == PipeSpec => []CompleteOutput
<1>1. PipeInv => CompleteOutput
  <2> SUFFICES ASSUME PipeInv, ppc = "return" PROVE out = produced /\ eof /\ left = 0 /\ status = 0
    BY DEF CompleteOutput
  <2>1. writers2 = {} /\ pipe2 = 0 /\ status = 0 /\ tpc \notin {"read", "write", "none"}
    BY DEF PipeInv, EndsHeld
  <2>2. tpc = "exited" /\ eof /\ wpc = "exited"
    BY <2>1 DEF PipeInv, PipeTypeOK
  <2> QED BY <2>1, <2>2 DEF PipeInv, PipeTypeOK
<1> QED BY <1>1, PipeInvariant, PTL

(* No child outlives a run_tcc that returns or exits because a child has   *)
(* failed: the end of file on pipe2 means that both are gone.  (A failing  *)
(* call of tcsim itself is the exception NoOrphans makes.)                 *)
THEOREM ChildrenGone == PipeSpec => []NoOrphans
<1>1. PipeInv => NoOrphans
  BY DEF PipeInv, PipeTypeOK, EndsHeld, NoOrphans
<1> QED BY <1>1, PipeInvariant, PTL

-----------------------------------------------------------------------------

(* What is left of liveness without fairness: as long as run_tcc has not   *)
(* come to its end there is a process that the kernel can run, and no      *)
(* process can run forever.                                                *)

(* A process can take a step other than failing: the guards of Parent,     *)
(* Writer, TccRead and TccExit.                                            *)
CanGoOn ==
  \/ ppc = "fork"
  \/ ppc = "read" /\ (pipe2 > 0 \/ writers2 = {})
  \/ ppc = "wait_writer" /\ wpc = "exited"
  \/ ppc = "wait_tcc" /\ tpc = "exited"
  \/ wpc = "write" /\ (left = 0 \/ pipe1 < Capacity)
  \/ tpc = "read" /\ (pipe1 > 0 \/ writers1 = {})
  \/ tpc = "write"

NeverStuck == Over \/ Cut \/ CanGoOn

(* The three processes never wait for one another in a circle: whatever    *)
(* the sizes and the order of their steps, run_tcc is over, or one of them *)
(* can go on, or a failed tcc has left the writer at a full pipe.          *)
THEOREM NoDeadlock == PipeSpec => []NeverStuck
<1>1. PipeInv => NeverStuck
  <2> SUFFICES ASSUME PipeInv, ~Over, ~CanGoOn PROVE Cut
    BY DEF NeverStuck
  <2> USE CapacityAssumption DEF PipeInv, PipeTypeOK, EndsHeld, Over
  <2>1. ppc = "read" /\ pipe2 = 0 /\ writers2 # {}
    <3>1. ppc # "fork" /\ tpc # "none" /\ wpc # "none"
      BY DEF CanGoOn
    <3>2. ppc # "wait_writer"
      BY <3>1 DEF CanGoOn
    <3>3. ppc # "wait_tcc"
      BY <3>1 DEF CanGoOn
    <3>4. ppc = "read"
      BY <3>1, <3>2, <3>3
    <3> QED BY <3>4 DEF CanGoOn
  <2>2. tpc = "exited"
    <3>1. tpc # "write" /\ tpc # "none"
      BY <2>1 DEF CanGoOn
    <3>2. ASSUME tpc = "read" PROVE FALSE
      <4>1. pipe1 = 0 /\ writers1 # {}
        BY <3>2 DEF CanGoOn
      <4>2. wpc = "write"
        BY <2>1, <4>1 DEF Procs
      <4> QED BY <4>1, <4>2 DEF CanGoOn
    <3> QED BY <3>1, <3>2
  <2>3. wpc = "write"
    BY <2>1, <2>2 DEF Procs
  <2>4. left > 0 /\ pipe1 = Capacity
    BY <2>3 DEF CanGoOn
  <2>5. status = 1
    BY <2>2, <2>3
  <2> QED BY <2>3, <2>4, <2>5 DEF Cut
<1> QED BY <1>1, PipeInvariant, PTL

(* How much there is still to do at most: a byte of configuration is to be *)
(* written and read, a byte of output as well, and each process has the    *)
(* rest of its own way to go.                                              *)
StepsLeft ==
  LET parent == CASE ppc = "fork" -> 4 [] ppc = "read" -> 3 [] ppc = "wait_writer" -> 2
                  [] ppc = "wait_tcc" -> 1 [] OTHER -> 0
      writer == CASE wpc = "none" -> 2 [] wpc = "write" -> 1 [] OTHER -> 0
      tcc    == CASE tpc = "none" -> 3 [] tpc = "read" -> 2 [] tpc = "write" -> 1
                  [] OTHER -> 0
  IN  2 * left + pipe1 + 2 * (OutMax - produced) + pipe2 + parent + writer + tcc

(* run_tcc always ends: every step of every process, failures included,    *)
(* leaves less to do, for any sizes.                                       *)
THEOREM AlwaysLess == PipeSpec => [][StepsLeft' < StepsLeft /\ StepsLeft \in Nat]_tccVars
<1>1. PipeInv /\ PipeInv' /\ [PipeNext]_tccVars
        => [StepsLeft' < StepsLeft /\ StepsLeft \in Nat]_tccVars
  <2> SUFFICES ASSUME PipeInv, PipeInv', PipeNext
               PROVE  StepsLeft' < StepsLeft /\ StepsLeft \in Nat
    OBVIOUS
  <2> USE InLenAssumption, CapacityAssumption
  <2>0. /\ left \in Nat /\ pipe1 \in Nat /\ pipe2 \in Nat /\ produced \in Nat
        /\ OutMax - produced \in Nat /\ OutMax \in Nat
        /\ left' \in Nat /\ pipe1' \in Nat /\ pipe2' \in Nat /\ produced' \in Nat
    BY DEF PipeInv, PipeTypeOK
  <2>1. StepsLeft \in Nat
    BY <2>0 DEF StepsLeft
  <2>2. CASE ForkWriter
    BY <2>0, <2>2 DEF ForkWriter, StepsLeft
  <2>3. CASE ForkTcc
    BY <2>0, <2>3 DEF ForkTcc, StepsLeft
  <2>4. CASE ParentRead
    BY <2>0, <2>4 DEF ParentRead, StepsLeft
  <2>5. CASE WaitWriter
    BY <2>0, <2>5 DEF WaitWriter, pipeVars, StepsLeft
  <2>6. CASE WaitTcc
    BY <2>0, <2>6 DEF WaitTcc, pipeVars, StepsLeft
  <2>7. CASE WriterWrite
    BY <2>0, <2>7 DEF WriterWrite, StepsLeft
  <2>8. CASE WriterExit
    BY <2>0, <2>8 DEF WriterExit, StepsLeft
  <2>9. CASE TccRead
    BY <2>0, <2>9 DEF TccRead, StepsLeft
  <2>10. CASE TccWrite
    BY <2>0, <2>10 DEF TccWrite, StepsLeft
  <2>11. CASE TccExit
    BY <2>0, <2>11 DEF TccExit, StepsLeft
  <2>12. CASE TccError
    BY <2>0, <2>12 DEF TccError, StepsLeft
  <2>13. CASE ForkFails
    BY <2>0, <2>13 DEF ForkFails, StepsLeft
  <2>14. CASE ReadFails
    BY <2>0, <2>14 DEF ReadFails, StepsLeft
  <2>15. CASE WriterFails
    BY <2>0, <2>15 DEF WriterFails, StepsLeft
  <2> QED BY <2>1, <2>2, <2>3, <2>4, <2>5, <2>6, <2>7, <2>8, <2>9, <2>10, <2>11, <2>12,
             <2>13, <2>14, <2>15
          DEF PipeNext, Parent, Writer, Tcc, Failure
<1> QED BY <1>1, PipeInvariant, PTL DEF PipeSpec

=============================================================================
