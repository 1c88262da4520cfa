-------------------------------- MODULE IpaUc --------------------------------
(***************************************************************************)
(* The mailbox between the driver and the IPA microcontroller (ipa_uc.c):    *)
(* one command at a time under uc_lock, answered in shared memory.  The       *)
(* answer also raises an interrupt whose work runs later and looks at the     *)
(* mailbox as it is then.  Commands sent while the clock is switched, and     *)
(* memory copies, poll the mailbox; the others wait for the work.             *)
(* The work holds no lock: it reads the mailbox, compares with pending_cmd,   *)
(* writes uc_status and completes in four steps.  A polled command may return *)
(* and another one be sent between two of them, which the work then answers   *)
(* (overtaken): the code does not exclude it, and the model ends there.       *)
(*                                                                         *)
(* An unanswered command is a kernel panic (BUG() in ipa_assert()).           *)
(***************************************************************************)
EXTENDS Naturals

CONSTANTS
  NONE,         \* no holder, no command, an empty mailbox
  Callers,      \* threads that send commands
  MaxRetry,     \* IPA_BAM_STOP_MAX_RETRY
  MaxSends      \* bound on commands sent

VARIABLES
  inited, loaded,   \* uc_inited, uc_loaded
  owner,            \* holder of uc_lock
  pc,               \* per caller: where in ipa_uc_send_cmd()
  op,               \* the command of the holder
  retries,          \* and how often it was sent again
  pending,          \* pending_cmd
  completion,       \* uc_completion is done
  status,           \* uc_status
  doorbell,         \* the microcontroller has a command to do
  rsp,              \* responseOp and responseParams
  irq,              \* the work of the response interrupt is queued
  hdlr, taken,      \* its next step, and the response it read
  fresh,            \* no command was armed or rung for since it read it
  overtaken,        \* ghost: it wrote for another command than it had read of
  holb,             \* ipa_holb_work is queued
  answer,           \* what the command sent last was answered, NONE before
  heard,            \* the work took that answer while the command was pending
  last,             \* the last command that returned
  sends, panic

work == <<hdlr, taken, fresh>>
vars == <<inited, loaded, owner, pc, op, retries, pending, completion, status,
          doorbell, rsp, irq, work, overtaken, holb, answer, heard, last, sends, panic>>

Polled == {"CLK_GATE", "MEMCPY"}
Waited == {"RESET_PIPE", "UPDATE_HOLB_MONITORING"}

Init ==
  /\ inited = FALSE /\ loaded = FALSE
  /\ owner = NONE
  /\ pc = [c \in Callers |-> "idle"]
  /\ op = NONE /\ retries = 0
  /\ pending = NONE /\ completion = FALSE /\ status = "0"
  /\ doorbell = FALSE /\ rsp = NONE /\ irq = FALSE /\ holb = FALSE
  /\ hdlr = "idle" /\ taken = NONE /\ fresh = FALSE /\ overtaken = FALSE
  /\ answer = NONE /\ heard = FALSE
  /\ last = NONE
  /\ sends = 0 /\ panic = FALSE

-----------------------------------------------------------------------------
InterfaceInit ==
  /\ ~inited
  /\ inited' = TRUE
  /\ UNCHANGED <<work, overtaken, loaded, owner, pc, op, retries, pending, completion,
                 status, doorbell, rsp, irq, holb, answer, heard, last, sends, panic>>

(* External: the firmware starts once and says so through the mailbox, at    *)
(* the earliest when the interface is up.                                    *)
FirmwareStarts ==
  /\ inited /\ ~loaded /\ rsp = NONE
  /\ rsp' = [op |-> "INIT_COMPLETED", cmd |-> NONE, status |-> "0"]
  /\ irq' = TRUE
  /\ UNCHANGED <<work, overtaken, inited, loaded, owner, pc, op, retries, pending,
                 completion, status, doorbell, holb, answer, heard, last, sends, panic>>

(* External: it does a command and answers; a pipe in the wrong state is     *)
(* worth another try.                                                        *)
Answer(s) ==
  /\ doorbell
  /\ s = "retry" => op \in Waited
  /\ doorbell' = FALSE
  /\ rsp' = [op |-> "CMD_COMPLETED", cmd |-> op, status |-> s]
  /\ irq' = TRUE
  /\ answer' = s
  /\ UNCHANGED <<work, overtaken, inited, loaded, owner, pc, op, retries, pending,
                 completion, status, holb, heard, last, sends, panic>>

(* ipa_uc_response_hdlr(), in the interrupt's work: it reads the mailbox.    *)
(* When the firmware is up it queues the work that turns on HOLB monitoring. *)
ResponseHdlr ==
  /\ irq /\ hdlr = "idle"
  /\ irq' = FALSE
  /\ LET done == rsp # NONE /\ rsp.op = "CMD_COMPLETED"
         up == rsp # NONE /\ rsp.op = "INIT_COMPLETED"
     IN /\ hdlr' = IF done THEN "compare" ELSE "idle"
        /\ taken' = IF done THEN rsp ELSE NONE
        /\ fresh' = done
        /\ loaded' = (loaded \/ up)
        /\ holb' = (holb \/ up)
  /\ UNCHANGED <<inited, owner, pc, op, retries, pending, completion, status, doorbell,
                 rsp, overtaken, answer, heard, last, sends, panic>>

HdlrEnds == hdlr' = "idle" /\ taken' = NONE /\ fresh' = FALSE

CompareNothing ==
  /\ hdlr = "compare"
  /\ hdlr' = "status" /\ UNCHANGED <<taken, fresh>>
  /\ UNCHANGED <<inited, loaded, owner, pc, op, retries, pending, completion, status,
                 doorbell, rsp, irq, overtaken, holb, answer, heard, last, sends,
                 panic>>

(* Is it the answer to pending_cmd?                                          *)
Compare ==
  /\ hdlr = "compare"
  /\ \/ taken.cmd = pending /\ hdlr' = "status" /\ UNCHANGED <<taken, fresh>>
     \/ taken.cmd # pending /\ HdlrEnds
  /\ UNCHANGED <<inited, loaded, owner, pc, op, retries, pending, completion, status,
                 doorbell, rsp, irq, overtaken, holb, answer, heard, last, sends,
                 panic>>

Overtakes == ~fresh /\ owner # NONE
WriteStatus ==
  /\ hdlr = "status"
  /\ status' = taken.status
  /\ heard' = (heard \/ answer # NONE)
  /\ overtaken' = (overtaken \/ Overtakes)
  /\ hdlr' = "complete"
  /\ UNCHANGED <<inited, loaded, owner, pc, op, retries, pending, completion, doorbell,
                 rsp, irq, taken, fresh, holb, answer, last, sends, panic>>

Complete ==
  /\ hdlr = "complete"
  /\ completion' = TRUE
  /\ overtaken' = (overtaken \/ Overtakes)
  /\ HdlrEnds
  /\ UNCHANGED <<inited, loaded, owner, pc, op, retries, pending, status, doorbell, rsp,
                 irq, holb, answer, heard, last, sends, panic>>

-----------------------------------------------------------------------------
(* ipa_uc_send_cmd()                                                         *)

(* ipa_uc_reset_pipe(), ipa_uc_notify_clk_state() and ipa_uc_monitor_holb()  *)
(* do nothing before the firmware is up; a memory copy is refused.           *)
Begin(c, o) ==
  /\ pc[c] = "idle" /\ owner = NONE
  /\ inited /\ loaded
  /\ sends < MaxSends
  /\ sends' = sends + 1
  /\ owner' = c
  /\ pc' = [pc EXCEPT ![c] = "arm"]
  /\ op' = o
  /\ retries' = 0
  /\ UNCHANGED <<work, overtaken, inited, loaded, pending, completion, status, doorbell,
                 rsp, irq, holb, answer, heard, last, panic>>

(* ipa_start_monitor_holb()                                                  *)
HolbWork(c) ==
  /\ holb
  /\ pc[c] = "idle" /\ owner = NONE
  /\ holb' = FALSE
  /\ owner' = c
  /\ pc' = [pc EXCEPT ![c] = "arm"]
  /\ op' = "UPDATE_HOLB_MONITORING"
  /\ retries' = 0
  /\ UNCHANGED <<work, overtaken, inited, loaded, pending, completion, status, doorbell,
                 rsp, irq, answer, heard, last, sends, panic>>

(* The command and pending_cmd are written first ...                         *)
Arm(c) ==
  /\ pc[c] = "arm"
  /\ completion' = FALSE
  /\ pending' = op
  /\ pc' = [pc EXCEPT ![c] = "ring"]
  /\ answer' = NONE /\ heard' = FALSE
  /\ fresh' = FALSE
  /\ UNCHANGED <<hdlr, taken, overtaken, inited, loaded, owner, op, retries, status,
                 doorbell, rsp, irq, holb, last, sends, panic>>


(* ... then the old response and status go, and the doorbell rings.          *)
Ring(c) ==
  /\ pc[c] = "ring"
  /\ rsp' = NONE
  /\ status' = "0"
  /\ doorbell' = TRUE
  /\ pc' = [pc EXCEPT ![c] = IF op \in Polled THEN "poll" ELSE "wait"]
  /\ fresh' = FALSE
  /\ UNCHANGED <<hdlr, taken, overtaken, inited, loaded, owner, op, retries, pending,
                 completion, irq, holb, answer, heard, last, sends, panic>>

PollSees(c) ==
  /\ pc[c] = "poll"
  /\ rsp # NONE /\ rsp.op = "CMD_COMPLETED" /\ rsp.cmd = pending
  /\ pending' = NONE
  /\ pc' = [pc EXCEPT ![c] = "done"]
  /\ UNCHANGED <<work, overtaken, inited, loaded, owner, op, retries, completion,
                 status, doorbell, rsp, irq, holb, answer, heard, last, sends, panic>>

WaitEnds(c) ==
  /\ pc[c] = "wait"
  /\ completion
  /\ pc' = [pc EXCEPT ![c] = "done"]
  /\ UNCHANGED <<work, overtaken, inited, loaded, owner, op, retries, pending,
                 completion, status, doorbell, rsp, irq, holb, answer, heard, last,
                 sends, panic>>

(* Ten seconds, or ten thousand polls, without an answer: ipa_assert().      *)
GiveUp(c) ==
  /\ \/ pc[c] = "poll" /\ rsp = NONE
     \/ pc[c] = "wait" /\ ~completion
  /\ panic' = TRUE
  /\ UNCHANGED <<work, overtaken, inited, loaded, owner, pc, op, retries, pending,
                 completion, status, doorbell, rsp, irq, holb, answer, heard, last,
                 sends>>

(* The status is compared with the expected 0.                               *)
Return(c) ==
  /\ pc[c] = "done" /\ status # "retry"
  /\ last' = [polled |-> op \in Polled, answer |-> answer, heard |-> heard,
              ret |-> IF status = "0" THEN "0" ELSE "EFAULT"]
  /\ pending' = NONE
  /\ owner' = NONE
  /\ pc' = [pc EXCEPT ![c] = "idle"]
  /\ op' = NONE
  /\ UNCHANGED <<work, overtaken, inited, loaded, retries, completion, status, doorbell,
                 rsp, irq, holb, answer, heard, sends, panic>>

Retry(c) ==
  /\ pc[c] = "done" /\ status = "retry"
  /\ retries' = retries + 1
  /\ IF retries' = MaxRetry
     THEN panic' = TRUE /\ UNCHANGED pc
     ELSE panic' = FALSE /\ pc' = [pc EXCEPT ![c] = "arm"]
  /\ UNCHANGED <<work, overtaken, inited, loaded, owner, op, pending, completion,
                 status, doorbell, rsp, irq, holb, answer, heard, last, sends>>

Next ==
  /\ ~panic /\ ~overtaken
  /\ \/ InterfaceInit \/ FirmwareStarts
     \/ ResponseHdlr \/ Compare \/ WriteStatus \/ Complete
     \/ \E s \in {"0", "error", "retry"} : Answer(s)
     \/ \E c \in Callers :
          \/ \E o \in Polled \cup Waited : Begin(c, o)
          \/ HolbWork(c)
          \/ Arm(c) \/ Ring(c) \/ PollSees(c) \/ WaitEnds(c) \/ GiveUp(c)
          \/ Return(c) \/ Retry(c)

Spec == Init /\ [][Next]_vars

-----------------------------------------------------------------------------
(* A command that returned 0 was answered 0, and one that returned an error  *)
(* an error, with one exception: a polled command whose answer the interrupt *)
(* work did not take before the poll ended leaves uc_status alone and        *)
(* returns 0 whatever the answer.  All this unless an earlier command's work *)
(* wrote in its place.                                                       *)
ReturnMatchesAnswer ==
  ~overtaken /\ last # NONE =>
    /\ last.answer # NONE
    /\ last.ret = "EFAULT" => last.answer = "error"
    /\ last.ret = "0" => last.answer = "0" \/ (last.polled /\ ~last.heard)

(* The interrupt work of one command, however late it runs, never ends the   *)
(* wait for another, with the same exception: who waits goes on only after   *)
(* its own answer.                                                           *)
LateWorkHarmless ==
  ~overtaken => \A c \in Callers :
    /\ pc[c] = "wait" /\ completion => answer # NONE
    /\ pc[c] = "wait" => pending = op
=============================================================================
