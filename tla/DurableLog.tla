----------------------------- MODULE DurableLog -----------------------------
(***************************************************************************)
(* What the session journal promises to everyone above it: a log that only *)
(* grows, one event at a time, holding each event at most once, and from   *)
(* which nothing that was acknowledged ever disappears.  An event may be   *)
(* in the log before it is acknowledged (or without ever being), which is  *)
(* what a write that fails late or a crash leaves behind.                  *)
(***************************************************************************)
EXTENDS Sequences

CONSTANT Events

VARIABLES
  log,               (* the events that survive a crash, in order            *)
  acked              (* the events whose caller was told they are durable    *)

InLog(e) == \E i \in DOMAIN log : log[i] = e

LogInit == log = <<>> /\ acked = {}

(* The event becomes durable; its caller may or may not learn it. *)
Write(e) ==
  /\ ~InLog(e)
  /\ log' = Append(log, e)
  /\ acked' \in {acked, acked \cup {e}}

(* A caller that asks again is told that the event is durable. *)
Confirm(e) ==
  /\ InLog(e)
  /\ acked' = acked \cup {e}
  /\ UNCHANGED log

LogNext == \E e \in Events : Write(e) \/ Confirm(e)

LogSpec == LogInit /\ [][LogNext]_<<log, acked>>

=============================================================================
