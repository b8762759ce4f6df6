-------------------------------- MODULE Vrrp --------------------------------
(***************************************************************************)
(* The plain VRRP election: the state machine of wren-vrrp (fsm.rs) and    *)
(* its runner in wren-daemon (vrrp.rs, run), for one virtual router backed *)
(* by several hosts on a link that loses and delays advertisements.        *)
(*                                                                         *)
(* A process is a generation of the engine on a host: a reload signals the *)
(* running generation and starts the next one at once, so two may run side *)
(* by side with one kernel between them.  The runner is a single task, so  *)
(* an event and the actions it leads to are one step; the operators below  *)
(* pass a working copy through the calls the handler makes.  Deadlines are *)
(* kept as the time left until them, in units of the interval's.           *)
(***************************************************************************)
EXTENDS Integers, Sequences

CONSTANTS
    Processes,   \* pairs <<host, generation>>
    ADDRESSES,   \* ADDRESSES[h]: the addresses the interface of h may have, 0 for none
    BASE,        \* BASE[h]: configured priority
    DECREMENT,   \* DECREMENT[h]: penalty while a tracked interface is down
    PREEMPT,     \* PREEMPT[h]
    INTERVAL,    \* INTERVAL[h]: advertisement interval
    INBOX,       \* advertisements a process has received and not handled
    Faults       \* what may go wrong: a subset of {"kill", "loss", "late", "assume"}

Hosts   == {p[1] : p \in Processes}
Host(p) == p[1]

Addresses == {0} \cup (UNION {ADDRESSES[h] : h \in Hosts})

Priorities == 1 .. 255
Intervals  == 1 .. 4095

ASSUME SettingsAssumption ==
    /\ ADDRESSES \in [Hosts -> SUBSET Nat]
    /\ \A g, h \in Hosts : g # h => ADDRESSES[g] \cap ADDRESSES[h] \subseteq {0}
    /\ BASE \in [Hosts -> Priorities] /\ DECREMENT \in [Hosts -> 0 .. 255]
    /\ PREEMPT \in [Hosts -> BOOLEAN] /\ INTERVAL \in [Hosts -> Intervals]
    /\ INBOX \in Nat
    /\ Faults \subseteq {"kill", "loss", "late", "assume"}

VARIABLES
    inst,      \* inst[p]: the instance of process p, see Instances
    stopping,  \* stopping[p]: the stop signal of p has been given
    inbox,     \* inbox[p]: advertisements on their way to p's loop, oldest first
    vip,       \* vip[h]: the virtual address: "absent", "held", or "left" behind
    address,   \* address[h]: its address; 0 without one or without its links
    tracked    \* tracked[h]: every tracked interface of h is up

vars == <<inst, stopping, inbox, vip, address, tracked>>

Off == -1  \* a timer that is not armed

Deadlines == Nat \cup {Off}

Instances == [state: {"off", "Initialize", "Backup", "Master"}, priority: Priorities,
              master_adver: Intervals, primary: Addresses,
              adver: Deadlines, master_down: Deadlines]

Adverts == [priority: Priorities \cup {0}, interval: Intervals, src: Addresses]

\* Vrrp::new.
New(h) == [state |-> "Initialize", priority |-> BASE[h], master_adver |-> INTERVAL[h],
           primary |-> address[h], adver |-> Off, master_down |-> Off]

Dead(h) == [New(h) EXCEPT !.state = "off", !.primary = 0]

Init ==
    /\ address \in [Hosts -> Addresses]
    /\ \A h \in Hosts : address[h] \in ADDRESSES[h]
    /\ tracked = [h \in Hosts |-> TRUE]
    /\ inst = [p \in Processes |-> Dead(Host(p))]
    /\ stopping = [p \in Processes |-> FALSE]
    /\ inbox = [p \in Processes |-> <<>>]
    /\ vip = [h \in Hosts |-> "absent"]
----------------------------------------------------------------------------
(* A working copy w: the instance, its host's address and what it sends *)

Work(p) == [fsm |-> inst[p], vip |-> vip[Host(p)], out |-> <<>>]

SendAdvert(w, h, prio) ==
    [w EXCEPT !.out = Append(@, [priority |-> prio, interval |-> INTERVAL[h],
                                 src |-> w.fsm.primary])]

ArmAdver(w, h) == [w EXCEPT !.fsm = [@ EXCEPT !.adver = INTERVAL[h], !.master_down = Off]]

ArmMasterDown(w, t) == [w EXCEPT !.fsm = [@ EXCEPT !.adver = Off, !.master_down = t]]

Reset(w) == [w EXCEPT !.fsm = [@ EXCEPT !.state = "Initialize", !.adver = Off,
                                        !.master_down = Off]]

Skew(f) == ((256 - f.priority) * f.master_adver) \div 256

MasterDownInterval(f) == 3 * f.master_adver + Skew(f)

Release(w) == [w EXCEPT !.vip = "absent"]

\* Mutant: the timers of the election survive the failure.
AssumeFailsArmed(w, h) ==
    [Release(SendAdvert(w, h, 0)) EXCEPT !.fsm.state = "Initialize"]

\* apply_actions when the address cannot be added: mastership is withdrawn.
AssumeFails(w, h) ==
    Reset(Release(SendAdvert(w, h, 0)))

Assume(w, h, ok) == IF ok THEN [w EXCEPT !.vip = "held"] ELSE AssumeFails(w, h)

BecomeMaster(w, h, ok) ==
    LET sent == SendAdvert([w EXCEPT !.fsm.state = "Master"], h, w.fsm.priority)
    IN  IF ok THEN ArmAdver(Assume(sent, h, TRUE), h) ELSE Assume(sent, h, FALSE)

OnStartup(w, h, ok) ==
    IF w.fsm.priority = 255 THEN BecomeMaster(w, h, ok)
    ELSE ArmMasterDown([w EXCEPT !.fsm.state = "Backup"], MasterDownInterval(w.fsm))

OnShutdown(w, h) ==
    LET f    == w.fsm
        said == IF f.state = "Master" THEN Release(SendAdvert(w, h, 0)) ELSE w
    IN  [said EXCEPT !.fsm =
           [f EXCEPT !.state = "Initialize",
                     !.adver = IF f.state = "Master" THEN Off ELSE f.adver,
                     !.master_down = IF f.state = "Backup" THEN Off ELSE f.master_down]]

SetPriority(w, h, prio) ==
    LET set == [w EXCEPT !.fsm.priority = prio]
    IN  IF prio # w.fsm.priority /\ w.fsm.state = "Master" THEN SendAdvert(set, h, prio)
        ELSE set

\* Mutant: a lower-priority master also resets the timer of a preempting backup.
AdvertInBackupDefers(w, h, m) ==
    LET learned == [w EXCEPT !.fsm.master_adver = m.interval]
    IN  IF m.priority = 0 THEN ArmMasterDown(w, Skew(w.fsm))
        ELSE ArmMasterDown(learned, MasterDownInterval(learned.fsm))

AdvertInBackup(w, h, m) ==
    LET learned == [w EXCEPT !.fsm.master_adver = m.interval]
    IN  IF m.priority = 0 THEN ArmMasterDown(w, Skew(w.fsm))
        ELSE IF ~PREEMPT[h] \/ m.priority >= w.fsm.priority
        THEN ArmMasterDown(learned, MasterDownInterval(learned.fsm))
        ELSE w

Yields(w, m) ==
    \/ m.priority > w.fsm.priority
    \/ m.priority = w.fsm.priority /\ m.src > w.fsm.primary

\* Mutant: the address stays on the interface of a master that yields.
AdvertInMasterKeeps(w, h, m) ==
    LET learned == [w EXCEPT !.fsm = [@ EXCEPT !.state = "Backup",
                                           !.master_adver = m.interval]]
    IN  IF m.priority = 0 THEN ArmAdver(SendAdvert(w, h, w.fsm.priority), h)
        ELSE IF Yields(w, m) THEN ArmMasterDown(learned, MasterDownInterval(learned.fsm))
        ELSE w

AdvertInMaster(w, h, m) ==
    LET learned == [w EXCEPT !.fsm = [@ EXCEPT !.state = "Backup",
                                           !.master_adver = m.interval]]
    IN  IF m.priority = 0 THEN ArmAdver(SendAdvert(w, h, w.fsm.priority), h)
        ELSE IF Yields(w, m)
        THEN ArmMasterDown(Release(learned), MasterDownInterval(learned.fsm))
        ELSE w

\* The adv_rx arm: dropped without an address to compare with.
OnAdvertisement(w, h, m) ==
    IF w.fsm.primary = 0 THEN w
    ELSE IF w.fsm.state = "Backup" THEN AdvertInBackup(w, h, m)
    ELSE IF w.fsm.state = "Master" THEN AdvertInMaster(w, h, m)
    ELSE w

Pending(t) == IF t = 0 THEN Off ELSE t

\* The timer arm: what is due is cleared before it is handled.
OnTimer(w, h, ok) ==
    LET f    == w.fsm
        idle == [w EXCEPT !.fsm = [f EXCEPT !.adver = Pending(f.adver),
                                            !.master_down = Pending(f.master_down)]]
    IN  IF f.adver = 0 /\ f.state = "Master"
        THEN ArmAdver(SendAdvert(idle, h, f.priority), h)
        ELSE IF f.master_down = 0 /\ f.state = "Backup"
        THEN BecomeMaster(idle, h, ok)
        ELSE idle

\* poll_primary, with address a on the interface: nothing to do, repair the
\* virtual address, or a new election.
PollPrimary(w, h, a, ok) ==
    IF a = 0 /\ w.fsm.primary = 0 /\ w.fsm.state = "Initialize" THEN w
    ELSE IF a = w.fsm.primary /\ w.fsm.state # "Initialize"
    THEN IF w.fsm.state = "Master" /\ w.vip = "absent" THEN Assume(w, h, ok) ELSE w
    ELSE LET fresh == [OnShutdown(w, h) EXCEPT !.fsm.primary = a]
         IN  IF a = 0 THEN fresh ELSE OnStartup(fresh, h, ok)

Effective(h) ==
    IF tracked[h] THEN BASE[h]
    ELSE IF BASE[h] > DECREMENT[h] THEN BASE[h] - DECREMENT[h] ELSE 1

\* The track_poll arm: poll_primary, then poll_tracking.
OnPoll(w, h, ok) == SetPriority(PollPrimary(w, h, address[h], ok), h, Effective(h))
----------------------------------------------------------------------------
(* The loop's arms *)

\* An advertisement reaches the running processes of every other host (there is
\* no multicast loop) if both ends have their link; a full queue drops it.
Hears(p) ==
    {q \in Processes : /\ Host(q) # Host(p) /\ inst[q].state # "off"
                       /\ address[Host(p)] # 0 /\ address[Host(q)] # 0}

\* Mutant: the queue has no limit.
QueuedAll(seq, more) == seq \o more

Queued(seq, more) ==
    LET all == seq \o more
    IN  IF Len(all) <= INBOX THEN all ELSE SubSeq(all, 1, INBOX)

\* The handler is over: rest is what it leaves of p's queue.
Commit(p, w, rest) ==
    /\ inst' = [inst EXCEPT ![p] = w.fsm]
    /\ vip' = [vip EXCEPT ![Host(p)] = w.vip]
    /\ inbox' = [q \in Processes |->
                   IF q = p THEN rest
                   ELSE IF q \in Hears(p) THEN Queued(inbox[q], w.out) ELSE inbox[q]]
    /\ UNCHANGED <<address, tracked>>

Running(p) == inst[p].state # "off"

Allowed(ok) == ok \/ "assume" \in Faults

\* A generation starts when the one before it has stopped or been told to.
Start(p, ok) ==
    LET w == [Work(p) EXCEPT !.fsm = New(Host(p))]
    IN  /\ ~Running(p) /\ Allowed(ok)
        /\ \A q \in Processes : Host(q) = Host(p) /\ Running(q) => stopping[q]
        /\ Commit(p, IF address[Host(p)] = 0 THEN w ELSE OnStartup(w, Host(p), ok), <<>>)
        /\ UNCHANGED stopping

Receive(p) ==
    /\ Running(p) /\ inbox[p] # <<>>
    /\ Commit(p, OnAdvertisement(Work(p), Host(p), Head(inbox[p])), Tail(inbox[p]))
    /\ UNCHANGED stopping

Timer(p, ok) ==
    /\ Running(p) /\ 0 \in {inst[p].adver, inst[p].master_down} /\ Allowed(ok)
    /\ Commit(p, OnTimer(Work(p), Host(p), ok), inbox[p])
    /\ UNCHANGED stopping

Poll(p, ok) ==
    /\ Running(p) /\ Allowed(ok)
    /\ Commit(p, OnPoll(Work(p), Host(p), ok), inbox[p])
    /\ UNCHANGED stopping

\* The shutdown arm: the goodbye, and the task is over.
Stop(p) ==
    LET w == OnShutdown(Work(p), Host(p))
    IN  /\ Running(p) /\ stopping[p]
        /\ Commit(p, [w EXCEPT !.fsm = Dead(Host(p))], <<>>)
        /\ stopping' = [stopping EXCEPT ![p] = FALSE]
----------------------------------------------------------------------------
(* The environment *)

\* A reload or the daemon's shutdown signals the running generation.
Signal(p) ==
    /\ Running(p) /\ ~stopping[p]
    /\ stopping' = [stopping EXCEPT ![p] = TRUE]
    /\ UNCHANGED <<inst, inbox, vip, address, tracked>>

\* The daemon of host h is killed; the kernel keeps the address.
Kill(h) ==
    /\ "kill" \in Faults
    /\ inst' = [p \in Processes |-> IF Host(p) = h THEN Dead(h) ELSE inst[p]]
    /\ stopping' = [p \in Processes |-> Host(p) # h /\ stopping[p]]
    /\ inbox' = [p \in Processes |-> IF Host(p) = h THEN <<>> ELSE inbox[p]]
    /\ vip' = [vip EXCEPT ![h] = IF @ = "absent" THEN @ ELSE "left"]
    /\ UNCHANGED <<address, tracked>>

\* Somebody else removes the virtual address.
Strip(h) ==
    /\ vip' = [vip EXCEPT ![h] = "absent"]
    /\ UNCHANGED <<inst, stopping, inbox, address, tracked>>

\* The interface of h gets address a, or loses its address or its link.
Readdress(h, a) ==
    /\ address' = [address EXCEPT ![h] = a]
    /\ UNCHANGED <<inst, stopping, inbox, vip, tracked>>

\* A tracked interface of h goes down or comes up.
Track(h) ==
    /\ DECREMENT[h] > 0
    /\ tracked' = [tracked EXCEPT ![h] = ~@]
    /\ UNCHANGED <<inst, stopping, inbox, vip, address>>

Lose(p) ==
    /\ "loss" \in Faults
    /\ inbox[p] # <<>>
    /\ inbox' = [inbox EXCEPT ![p] = Tail(@)]
    /\ UNCHANGED <<inst, stopping, vip, address, tracked>>

\* Everything due has been handled.
Prompt == \A p \in Processes :
              inbox[p] = <<>> /\ 0 \notin {inst[p].adver, inst[p].master_down}

Less(t) == IF t > 0 THEN t - 1 ELSE t

Tick ==
    /\ Prompt \/ "late" \in Faults
    /\ inst' = [p \in Processes |-> [inst[p] EXCEPT !.adver = Less(@),
                                                    !.master_down = Less(@)]]
    /\ UNCHANGED <<stopping, inbox, vip, address, tracked>>

ProcessStep(p, ok) == Timer(p, ok) \/ Poll(p, ok) \/ (ok /\ (Receive(p) \/ Stop(p)))

Next ==
    \/ \E p \in Processes, ok \in BOOLEAN : Start(p, ok) \/ ProcessStep(p, ok)
    \/ \E p \in Processes : Signal(p) \/ Lose(p)
    \/ \E h \in Hosts : Kill(h) \/ Strip(h) \/ Track(h)
    \/ \E h \in Hosts : \E a \in ADDRESSES[h] : Readdress(h, a)
    \/ Tick

Spec == Init /\ [][Next]_vars
----------------------------------------------------------------------------
(* Correctness *)

\* Every variable has its type; a process's queue is bounded.
TypeOK ==
    /\ inst \in [Processes -> Instances]
    /\ stopping \in [Processes -> BOOLEAN]
    /\ inbox \in [Processes -> Seq(Adverts)]
    /\ \A p \in Processes : Len(inbox[p]) <= INBOX
    /\ vip \in [Hosts -> {"absent", "held", "left"}]
    /\ address \in [Hosts -> Addresses]
    /\ tracked \in [Hosts -> BOOLEAN]

\* The armed timer is the one of the state.
TimersMatch(f) ==
    /\ f.adver # Off <=> f.state = "Master"
    /\ f.master_down # Off <=> f.state = "Backup"

\* Exactly the timer of its state runs: a Backup can always be woken to take over,
\* a Master to advertise, and no timer of an earlier election is left armed.
TimerOfState == \A p \in Processes : TimersMatch(inst[p])

\* The address a running process has put on the interface is there only while a
\* process of the host is Master: every way out of mastership removes it.
HeldByMaster ==
    \A h \in Hosts : vip[h] = "held" =>
        \E p \in Processes : Host(p) = h /\ inst[p].state = "Master"
----------------------------------------------------------------------------
(* Liveness *)

\* The loop's select! takes an arm that stays ready, and time passes.
Fairness ==
    /\ \A p \in Processes :
         /\ WF_vars(Receive(p)) /\ WF_vars(Stop(p))
         /\ WF_vars(\E ok \in BOOLEAN : Timer(p, ok))
         /\ WF_vars(\E ok \in BOOLEAN : Poll(p, ok))
    /\ WF_vars(Tick)

FairSpec == Spec /\ Fairness

\* The step differs from the one with the address installed: an install was refused.
Refused(p) ==
    \/ Timer(p, FALSE) /\ ~Timer(p, TRUE)
    \/ Poll(p, FALSE) /\ ~Poll(p, TRUE)

Disturbance ==
    \/ \E p \in Processes : Signal(p) \/ \E ok \in BOOLEAN : Start(p, ok)
    \/ \E p \in Processes : Refused(p) \/ (Lose(p) /\ ~Receive(p))
    \/ \E h \in Hosts : Kill(h) \/ Strip(h) \/ Track(h)
    \/ \E h \in Hosts : \E a \in ADDRESSES[h] : Readdress(h, a)
    \/ Tick /\ ~Prompt

Connected(p) == Running(p) /\ address[Host(p)] # 0

\* m is the one Master, its host alone serves the address, and no preempting
\* process outranks it.
Elected(m) ==
    /\ \A p \in Processes : inst[p].state = "Master" <=> p = m
    /\ \A h \in Hosts : vip[h] = "held" <=> h = Host(m)
    /\ \A p \in Processes : Connected(p) /\ PREEMPT[Host(p)] =>
                              inst[p].priority <= inst[m].priority

\* Once the link, the hosts and the clock behave, one connected process is elected
\* for good, whatever happened before.
ElectionSettles ==
    <>[][~Disturbance]_vars =>
        <>[]((\E p \in Processes : Connected(p)) => \E m \in Processes : Elected(m))
============================================================================
