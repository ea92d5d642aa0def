--------------------------- MODULE FailureDetector ---------------------------
(***************************************************************************)
(* The lease protocol between one replica server (the worker) and the meta *)
(* servers, of which one is the leader (the master):                       *)
(* class failure_detector with slave_failure_detector_with_multimaster on  *)
(* the worker and meta_server_failure_detector on the masters.  Time is a  *)
(* clock that both sides read; only differences of times matter.           *)
(*                                                                         *)
(* At most one ping is outstanding, because its timeout is shorter than    *)
(* the beacon interval.  The leader lock is exclusive: the old leader has  *)
(* exited when a new one is elected.                                       *)
(***************************************************************************)
EXTENDS Integers

CONSTANTS Meta,             \* the meta servers
          CheckInterval,    \* _check_interval_milliseconds of the worker
          BeaconTimeout,    \* _beacon_timeout_milliseconds
          Lease,            \* _lease_milliseconds
          Grace,            \* _grace_milliseconds
          None,
          MaxTime           \* bound of the clock

ASSUME TimingAssumption ==
    /\ CheckInterval \in Nat \ {0} /\ BeaconTimeout \in Nat \ {0}
    /\ Lease \in Nat /\ Grace \in Nat /\ MaxTime \in Nat
    /\ Lease < Grace
    /\ BeaconTimeout + CheckInterval <= Lease

\* A call of send_beacon, and where it stands.
Ping == [to : Meta, time : Nat, stage : {"sent", "master", "other"}]

ASSUME NoneAssumption == None \notin Ping

VARIABLES now,
          \* worker
          target,                               \* the meta server in _masters
          last_send_time_for_beacon_with_ack,
          master_is_alive,                      \* master_record::is_alive
          checked,                              \* when check_all_records last ran
          ping,                                 \* the outstanding call of send_beacon
          late,                                 \* beacons whose call has timed out
          \* masters
          leader,
          started,                              \* meta_service::_started of the leader
          registered,                           \* the leader has a worker_record
          last_beacon_recv_time,
          worker_is_alive                       \* FALSE: the leader declared the worker dead

workerVars == <<target, last_send_time_for_beacon_with_ack, master_is_alive, checked>>
recordVars == <<registered, last_beacon_recv_time, worker_is_alive>>
leaderVars == <<leader, started, recordVars>>
vars == <<now, target, last_send_time_for_beacon_with_ack, master_is_alive, checked,
          ping, late, leader, started, registered, last_beacon_recv_time, worker_is_alive>>

\* register_master on the worker, register_worker on the leader: the worker is
\* considered connected, the master disconnected.
Init == /\ now = 0
        /\ target \in Meta
        /\ last_send_time_for_beacon_with_ack = 0
        /\ master_is_alive = FALSE
        /\ checked = 0
        /\ ping = None
        /\ late = {}
        /\ leader \in Meta
        /\ started = TRUE
        /\ registered = TRUE
        /\ last_beacon_recv_time = 0
        /\ worker_is_alive = TRUE

\* Time passes, but not beyond a timer that is due on the worker.
Tick == /\ now < MaxTime
        /\ now < checked + CheckInterval
        /\ ping # None => now < ping.time + BeaconTimeout
        /\ now' = now + 1
        /\ UNCHANGED <<ping, late>> /\ UNCHANGED workerVars /\ UNCHANGED leaderVars

send_beacon == /\ ping = None
               /\ ping' = [to |-> target, time |-> now, stage |-> "sent"]
               /\ UNCHANGED <<now, late>> /\ UNCHANGED workerVars /\ UNCHANGED leaderVars

(***************************************************************************)
(* The leader's records change when a beacon reaches it.                   *)
(***************************************************************************)
\* A new worker gets a record; for a known one a later time counts.
on_ping_internal == IF registered => now > last_beacon_recv_time
                    THEN /\ registered' = TRUE
                         /\ last_beacon_recv_time' = now
                         /\ worker_is_alive' = TRUE
                    ELSE UNCHANGED recordVars

\* mutant: any meta server answers as the master
OnPingAnyMaster ==
    /\ ping # None /\ ping.stage = "sent"
    /\ ping' = [ping EXCEPT !.stage = "master"]
    /\ IF ping.to = leader THEN on_ping_internal
                           ELSE UNCHANGED recordVars
    /\ UNCHANGED <<now, late, leader, started>> /\ UNCHANGED workerVars

on_ping ==
    /\ ping # None /\ ping.stage = "sent"
    /\ ping' = [ping EXCEPT !.stage = IF ping.to = leader THEN "master" ELSE "other"]
    /\ IF ping.to = leader THEN on_ping_internal
                           ELSE UNCHANGED recordVars
    /\ UNCHANGED <<now, late, leader, started>> /\ UNCHANGED workerVars

\* A beacon that arrives after the worker gave up waiting for its ack.
on_ping_late(m) ==
    /\ m \in late
    /\ late' = late \ {m}
    /\ IF m = leader THEN on_ping_internal
                     ELSE UNCHANGED recordVars
    /\ UNCHANGED <<now, ping, leader, started>> /\ UNCHANGED workerVars

(***************************************************************************)
(* The ack of the master.  It counts from the time the beacon was sent.    *)
(***************************************************************************)
Applicable == ping.time > last_send_time_for_beacon_with_ack

\* mutant: the lease counts from the time the ack arrived
EndPingFromReceipt ==
    /\ ping # None /\ ping.stage = "master"
    /\ ping' = None
    /\ IF Applicable
       THEN /\ last_send_time_for_beacon_with_ack' = now
            /\ master_is_alive' = (master_is_alive \/ (now > ping.time /\ now - ping.time <= Lease))
       ELSE UNCHANGED <<last_send_time_for_beacon_with_ack, master_is_alive>>
    /\ UNCHANGED <<now, late, target, checked>> /\ UNCHANGED leaderVars

end_ping ==
    /\ ping # None /\ ping.stage = "master"
    /\ ping' = None
    /\ IF Applicable
       THEN /\ last_send_time_for_beacon_with_ack' = ping.time
            /\ master_is_alive' = (master_is_alive \/ (now > ping.time /\ now - ping.time <= Lease))
       ELSE UNCHANGED <<last_send_time_for_beacon_with_ack, master_is_alive>>
    /\ UNCHANGED <<now, late, target, checked>> /\ UNCHANGED leaderVars

\* The next of the group, or the leader named in the answer.
switch_master == IF Meta = {target} THEN UNCHANGED target
                                    ELSE target' \in Meta \ {target}

\* The call failed, or the answer is not the master's: an applicable ack makes
\* the worker turn to another meta server, keeping the record.
end_ping_switch_master ==
    /\ ping # None /\ ping.stage # "master"
    /\ ping.stage = "sent" => now = ping.time + BeaconTimeout
    /\ ping' = None
    /\ late' \in {late, IF ping.stage = "sent" THEN late \cup {ping.to} ELSE late}
    /\ IF Applicable THEN switch_master ELSE UNCHANGED target
    /\ UNCHANGED <<now, last_send_time_for_beacon_with_ack, master_is_alive, checked>>
    /\ UNCHANGED leaderVars

\* The answer of the master is lost or comes too late.
end_ping_timeout ==
    /\ ping # None /\ ping.stage = "master"
    /\ now = ping.time + BeaconTimeout
    /\ ping' = None
    /\ IF Applicable THEN switch_master ELSE UNCHANGED target
    /\ UNCHANGED <<now, late, last_send_time_for_beacon_with_ack, master_is_alive, checked>>
    /\ UNCHANGED leaderVars

(***************************************************************************)
(* check_all_records on the worker: the master counts as disconnected when *)
(* the lease will run out before the next check.                           *)
(***************************************************************************)
\* mutant: the next check is not taken into account
ExpiredNow == /\ now > last_send_time_for_beacon_with_ack
              /\ now - last_send_time_for_beacon_with_ack > Lease

ExpiresBeforeNextCheck ==
    /\ now > last_send_time_for_beacon_with_ack
    /\ now + CheckInterval - last_send_time_for_beacon_with_ack > Lease

check_all_records_worker ==
    /\ checked' = now
    /\ master_is_alive' = (master_is_alive /\ ~ExpiresBeforeNextCheck)
    /\ UNCHANGED <<now, target, last_send_time_for_beacon_with_ack, ping, late>>
    /\ UNCHANGED leaderVars

\* check_all_records on the leader, at any time: it may run late.
check_all_records_master ==
    /\ registered /\ worker_is_alive
    /\ now > last_beacon_recv_time
    /\ now - last_beacon_recv_time > Grace
    /\ worker_is_alive' = FALSE
    /\ UNCHANGED <<now, leader, started, registered, last_beacon_recv_time, ping, late>> /\ UNCHANGED workerVars

\* The leader exits and a meta server, maybe itself again, gets the lock: it
\* answers beacons at once, and has no record of the worker.
leader_initialize ==
    /\ leader' \in Meta
    /\ started' = FALSE
    /\ registered' = FALSE
    /\ last_beacon_recv_time' = 0
    /\ worker_is_alive' = TRUE
    /\ UNCHANGED <<now, ping, late>> /\ UNCHANGED workerVars

\* Having read the state of the cluster it registers the worker as connected,
\* unless the record it got from a beacon has expired (_dead_set).
start_service ==
    /\ ~started
    /\ started' = TRUE
    /\ IF worker_is_alive THEN registered' = TRUE /\ last_beacon_recv_time' = now
                           ELSE UNCHANGED <<registered, last_beacon_recv_time>>
    /\ UNCHANGED <<now, ping, late, leader, worker_is_alive>> /\ UNCHANGED workerVars

\* The worker's process ends and starts again with register_master.
Restart ==
    /\ target' \in Meta
    /\ last_send_time_for_beacon_with_ack' = now
    /\ master_is_alive' = FALSE
    /\ checked' = now
    /\ ping' = None
    /\ UNCHANGED <<now, late>> /\ UNCHANGED leaderVars

Next == \/ Tick \/ send_beacon \/ on_ping \/ \E m \in Meta : on_ping_late(m)
        \/ end_ping \/ end_ping_switch_master \/ end_ping_timeout
        \/ check_all_records_worker \/ check_all_records_master
        \/ leader_initialize \/ start_service \/ Restart

Spec == Init /\ [][Next]_vars
-------------------------------------------------------------------------------
TypeOK == /\ now \in Nat
          /\ target \in Meta
          /\ last_send_time_for_beacon_with_ack \in Nat
          /\ master_is_alive \in BOOLEAN
          /\ checked \in Nat
          /\ ping \in Ping \cup {None}
          /\ late \subseteq Meta
          /\ leader \in Meta
          /\ started \in BOOLEAN /\ registered \in BOOLEAN
          /\ last_beacon_recv_time \in Nat
          /\ worker_is_alive \in BOOLEAN

(***************************************************************************)
(* The perfect failure detector: while a replica server thinks that it is  *)
(* connected (and its replicas may be primaries), the leading meta server  *)
(* has not declared it dead (and has not given its partitions away).       *)
(***************************************************************************)
PerfectFD == master_is_alive => worker_is_alive

(***************************************************************************)
(* A connected worker holds an unexpired lease at every moment, not only   *)
(* at the moments when check_all_records runs.                             *)
(***************************************************************************)
LeaseHonoured == master_is_alive => now <= last_send_time_for_beacon_with_ack + Lease

(***************************************************************************)
(* What makes PerfectFD inductive.                                         *)
(***************************************************************************)
ClockInv == /\ checked <= now /\ now <= checked + CheckInterval
            /\ last_send_time_for_beacon_with_ack <= now

PingInv == ping # None => /\ ping.time <= now
                          /\ now <= ping.time + BeaconTimeout
                          /\ ping.stage = "master" /\ registered
                                 => ping.time <= last_beacon_recv_time

LeaseInv == master_is_alive =>
                /\ registered => last_send_time_for_beacon_with_ack <= last_beacon_recv_time
                /\ checked + CheckInterval <= last_send_time_for_beacon_with_ack + Lease

GraceInv == ~worker_is_alive => registered /\ now > last_beacon_recv_time + Grace

\* The time of the last acknowledged beacon, the next check on the worker and
\* the leader's view of the worker stay in an order that no message delay,
\* switch of master, change of leader or restart upsets.
FDInv == ClockInv /\ PingInv /\ LeaseInv /\ GraceInv
===============================================================================
