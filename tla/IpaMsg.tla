------------------------------- MODULE IpaMsg -------------------------------
(* The messages of /dev/ipa (ipa_intf.c): kernel clients send events, which  *)
(* user space reads.  The connect events of WLAN clients are also kept in a  *)
(* cache, and an ioctl puts the cached events on the list once more.  Senders*)
(* hold msg_lock while they update the cache under msg_wlan_client_lock; the *)
(* ioctl takes the two locks in the other order.                             *)
EXTENDS Naturals, Sequences, FiniteSets, SequencesExt

CONSTANTS
  Senders,     \* threads in ipa2_send_msg()
  Resenders,   \* threads in ipa2_resend_wlan_msg()
  Readers,     \* threads in ipa_read()
  Macs,        \* WLAN clients
  MaxMsgs,     \* bound on the messages ever put on the list
  NONE

VARIABLES
  log,      \* every message ever put on msg_list, in order
  list,     \* msg_list: positions in log
  cache,    \* msg_wlan_client_list: positions in log, the list is in their order
  lock,     \* holder of msg_lock
  wlock,    \* holder of msg_wlan_client_lock
  pc,       \* where each thread is
  job,      \* per thread: the message at hand, or the last one taken from the cache
  woken,    \* per reader: WQ_FLAG_WOKEN of its wait queue entry
  got,      \* positions user space received
  dropped,  \* positions a failing read took off the list
  missed    \* clients whose connect event found no memory for the cache

vars == <<log, list, cache, lock, wlock, pc, job, woken, got, dropped, missed>>

Threads == Senders \cup Resenders \cup Readers
Events == {[ev |-> e, mac |-> m] : e \in {"connect", "disconnect"}, m \in Macs}
          \cup {[ev |-> "other", mac |-> NONE]}

Init ==
  /\ log = <<>> /\ list = <<>> /\ cache = {}
  /\ lock = NONE /\ wlock = NONE
  /\ pc = [t \in Threads |-> "idle"] /\ job = [t \in Threads |-> 0]
  /\ woken = [r \in Readers |-> FALSE]
  /\ got = {} /\ dropped = {} /\ missed = {}

Go(t, at) == pc' = [pc EXCEPT ![t] = at]
Return(t) == Go(t, "idle") /\ job' = [job EXCEPT ![t] = 0]

\* list_add_tail() on msg_list
Enqueue(m) ==
  /\ log' = Append(log, m)
  /\ list' = Append(list, Len(log) + 1)

\* A plausible slip: an exclusive wait, where wake_up() marks one reader.
WakeUpOne ==
  LET on == {r \in Readers : pc[r] # "idle"} IN
  woken' = IF on = {} THEN woken ELSE [woken EXCEPT ![CHOOSE r \in on : TRUE] = TRUE]

\* wake_up(): every reader on the wait queue, asleep or not, is marked woken.
WakeUp == woken' = [r \in Readers |-> woken[r] \/ pc[r] # "idle"]

-----------------------------------------------------------------------------
(* ipa2_send_msg() *)

SendMsg(s, m) ==
  /\ pc[s] = "idle" /\ lock = NONE
  /\ Len(log) < MaxMsgs
  /\ Enqueue(m)
  /\ lock' = s
  /\ job' = [job EXCEPT ![s] = Len(log) + 1]
  /\ Go(s, "process")
  /\ UNCHANGED <<cache, wlock, woken, got, dropped, missed>>

\* What wlan_msg_process() leaves in the cache: a connect event is added even
\* when the client has one already, a disconnect event removes all of them.
CacheAfter(p) ==
  CASE log[p].ev = "connect" -> {cache \cup {p}, cache}  \* the second: no memory
    [] log[p].ev = "disconnect" -> {{c \in cache : log[c].mac # log[p].mac}}
    [] OTHER -> {cache}

NoteMissed(m) ==
  missed' = IF m.ev = "connect" /\ cache' = cache THEN missed \cup {m.mac}
            ELSE IF m.ev # "other" THEN missed \ {m.mac} ELSE missed

WlanMsgProcess(s) ==
  LET m == log[job[s]] IN
  /\ pc[s] = "process"
  /\ m.ev # "other" => wlock = NONE
  /\ cache' \in CacheAfter(job[s])
  /\ NoteMissed(m)
  /\ lock' = NONE
  /\ Go(s, "wake")
  /\ UNCHANGED <<log, list, wlock, job, woken, got, dropped>>

SendWake(s) ==
  /\ pc[s] = "wake"
  /\ WakeUp
  /\ Return(s)
  /\ UNCHANGED <<log, list, cache, lock, wlock, got, dropped, missed>>

-----------------------------------------------------------------------------
(* ipa2_resend_wlan_msg() *)

ResendWlanMsg(z) ==
  /\ pc[z] = "idle" /\ wlock = NONE
  /\ wlock' = z
  /\ Go(z, "resend")
  /\ UNCHANGED <<log, list, cache, lock, job, woken, got, dropped, missed>>

\* The entries of the cache after the last one taken.
Rest(z) == {c \in cache : c > job[z]}

\* The copy of one entry is allocated before msg_lock is taken; or there is no
\* memory, and the call ends.
ResendOne(z) ==
  /\ pc[z] = "resend" /\ Rest(z) # {}
  /\ \/ /\ Len(log) < MaxMsgs
        /\ \E c \in Rest(z) :
             /\ \A d \in Rest(z) : c <= d
             /\ job' = [job EXCEPT ![z] = c]
        /\ Go(z, "resendlock")
        /\ UNCHANGED wlock
     \/ wlock' = NONE /\ Return(z)
  /\ UNCHANGED <<log, list, cache, lock, woken, got, dropped, missed>>

ResendAdd(z) ==
  /\ pc[z] = "resendlock" /\ lock = NONE
  /\ Enqueue(log[job[z]])
  /\ Go(z, "resendwake")
  /\ UNCHANGED <<cache, lock, wlock, job, woken, got, dropped, missed>>

ResendWake(z) ==
  /\ pc[z] = "resendwake"
  /\ WakeUp
  /\ Go(z, "resend")
  /\ UNCHANGED <<log, list, cache, lock, wlock, job, got, dropped, missed>>

ResendEnd(z) ==
  /\ pc[z] = "resend" /\ Rest(z) = {}
  /\ wlock' = NONE
  /\ Return(z)
  /\ UNCHANGED <<log, list, cache, lock, woken, got, dropped, missed>>

-----------------------------------------------------------------------------
(* ipa_read() *)

ReadStart(r) ==
  /\ pc[r] = "idle"
  /\ Go(r, "check")
  /\ UNCHANGED <<log, list, cache, lock, wlock, job, woken, got, dropped, missed>>

ReadTake(r) ==
  /\ pc[r] \in {"check", "last"} /\ lock = NONE
  /\ list # <<>>
  /\ job' = [job EXCEPT ![r] = Head(list)]
  /\ list' = Tail(list)
  /\ Go(r, "copy")
  /\ UNCHANGED <<log, cache, lock, wlock, woken, got, dropped, missed>>

\* remove_wait_queue()
Leave(r) ==
  /\ Return(r)
  /\ woken' = [woken EXCEPT ![r] = FALSE]

\* Nothing to read: return when the file does not block or a signal is
\* pending, and wait otherwise.
ReadEmpty(r) ==
  /\ pc[r] \in {"check", "last"} /\ lock = NONE
  /\ list = <<>>
  /\ \/ Leave(r)
     \/ pc[r] = "check" /\ Go(r, "wait") /\ UNCHANGED <<job, woken>>
  /\ UNCHANGED <<log, list, cache, lock, wlock, got, dropped, missed>>

\* The buffer may be too small or the copy may fault: the message is gone.
ReadCopy(r) ==
  /\ pc[r] = "copy"
  /\ \/ got' = got \cup {job[r]} /\ UNCHANGED dropped
     \/ dropped' = dropped \cup {job[r]} /\ UNCHANGED got
  /\ Leave(r)
  /\ UNCHANGED <<log, list, cache, lock, wlock, missed>>

\* wait_woken() returns at once when the flag was set before it slept.
WaitWoken(r) ==
  /\ pc[r] = "wait" /\ woken[r]
  /\ woken' = [woken EXCEPT ![r] = FALSE]
  /\ Go(r, "check")
  /\ UNCHANGED <<log, list, cache, lock, wlock, job, got, dropped, missed>>

\* A signal ends the wait: the loop looks at the list once more.
Interrupted(r) ==
  /\ pc[r] = "wait"
  /\ woken' = [woken EXCEPT ![r] = FALSE]
  /\ Go(r, "last")
  /\ UNCHANGED <<log, list, cache, lock, wlock, job, got, dropped, missed>>

-----------------------------------------------------------------------------
SenderStep(s) == (\E m \in Events : SendMsg(s, m)) \/ WlanMsgProcess(s) \/ SendWake(s)
ResenderStep(z) == ResendWlanMsg(z) \/ ResendOne(z) \/ ResendAdd(z)
                   \/ ResendWake(z) \/ ResendEnd(z)
ReaderStep(r) == ReadStart(r) \/ ReadTake(r) \/ ReadEmpty(r) \/ ReadCopy(r)
                 \/ WaitWoken(r) \/ Interrupted(r)
Next ==
  \/ \E s \in Senders : SenderStep(s)
  \/ \E z \in Resenders : ResenderStep(z)
  \/ \E r \in Readers : ReaderStep(r)

\* A thread that can go on does, and a kernel mutex that is free over and over
\* is handed to every thread that waits for it; nobody has to start a call.
Fairness ==
  /\ \A s \in Senders : SF_vars(WlanMsgProcess(s)) /\ WF_vars(SendWake(s))
  /\ \A z \in Resenders :
       /\ WF_vars(ResendOne(z)) /\ SF_vars(ResendAdd(z))
       /\ WF_vars(ResendWake(z)) /\ WF_vars(ResendEnd(z))
  /\ \A r \in Readers :
       /\ SF_vars(ReadTake(r)) /\ SF_vars(ReadEmpty(r))
       /\ WF_vars(ReadCopy(r)) /\ WF_vars(WaitWoken(r))
Spec == Init /\ [][Next]_vars /\ Fairness

-----------------------------------------------------------------------------
\* No wake-up is lost: a reader that sleeps while messages are waiting has been
\* woken, or a thread is about to wake it (add_wait_queue(), wait_woken() and
\* wake_up() after the unlock).
NoLostWakeup ==
  \A r \in Readers :
    pc[r] = "wait" /\ list # <<>>
      => woken[r] \/ \E t \in Senders \cup Resenders : pc[t] \in {"process", "wake", "resendwake"}

\* The cache is what user space was told last: whenever no event is being
\* processed, a WLAN client is in the cache exactly when the last message about
\* it says that it is connected ("unlock only after process").
LastSays(m) ==
  LET about == {i \in 1 .. Len(log) : log[i].mac = m} IN
  IF about = {} THEN "disconnect"
  ELSE log[CHOOSE i \in about : \A j \in about : j <= i].ev
CacheIsCurrent ==
  (\A s \in Senders : pc[s] # "process")
    => \A m \in Macs \ missed :
         (\E c \in cache : log[c].mac = m) <=> LastSays(m) = "connect"

\* Every message is received, dropped by a failing read, in a reader's hands or
\* still on the list, and in only one of these places.
ReadOnce ==
  LET held == {job[r] : r \in {x \in Readers : pc[x] = "copy"}} IN
  /\ got \cap dropped = {} /\ held \cap (got \cup dropped) = {}
  /\ got \cup dropped \cup held \cup ToSet(list) = 1 .. Len(log)
  /\ Cardinality({r \in Readers : pc[r] = "copy"}) = Cardinality(held)

\* A call to send or to resend returns.  The comments of ipa2_send_msg() and
\* ipa2_resend_wlan_msg() promise a return value; the two lock orders do not
\* keep that promise.
CallsReturn ==
  \A t \in Senders \cup Resenders : pc[t] # "idle" ~> pc[t] = "idle"
=============================================================================
