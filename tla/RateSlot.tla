------------------------------ MODULE RateSlot ------------------------------
(***************************************************************************)
(* The two brakes of the daily monitors in WorkerRunner, each a time kept  *)
(* in a file below the spool:                                              *)
(*   DeepSeek: a slot is reserved before an attempt, one per interval;     *)
(*   Quark: the end of an attempt is recorded, and the next one waits the  *)
(*   cooldown.                                                             *)
(* The wait is a loop of control calls and short sleeps.  Pausing, being   *)
(* preempted and a failing attempt leave it through an exception; a        *)
(* restart leaves everything but the file.                                 *)
(*                                                                         *)
(* A tick of the clock is one sleep of the loop (five seconds).  A run has *)
(* one thread per provider and runs do not overlap, so the locks of the    *)
(* process decide nothing and are left out.                                *)
(***************************************************************************)
EXTENDS Integers

CONSTANTS
    Provider,       \* which of the two brakes
    Interval,       \* ticks between attempts
    Lease,          \* ticks a heartbeat extends the lease by
    MaxTime,        \* bound on the clock
    MaxCrashes      \* bound on restarts

ProviderAssumption == Provider \in {"deepseek", "quark"}
TimeAssumption == /\ Interval \in Nat \ {0} /\ Lease \in Nat \ {0}
                         /\ MaxTime \in Nat /\ MaxCrashes \in Nat

VARIABLES
    now,
    file,           \* the time in the file, Never without one
    at,             \* where the thread is
    expires,        \* the end of the lease
    paused,         \* since when a pause is requested, or Never
    last,           \* history: the last slot, or when Quark was last busy
    crashes

vars == <<now, file, at, expires, paused, last, crashes>>

Never == -1
Times == {Never} \cup 0..MaxTime
Places == {"idle", "check", "sleep", "ready", "asking"}

Init ==
    /\ now = 0 /\ file = Never /\ at = "idle" /\ expires = Lease
    /\ paused = Never /\ last = Never /\ crashes = 0

\* last_started <= 0 or remaining <= 0
Open == file = Never \/ now - file >= Interval

-----------------------------------------------------------------------------
\* A round is due.  Its forced check at the head of the round renewed the lease.
Enter ==
    /\ at = "idle" /\ paused = Never
    /\ at' = "check"
    /\ expires' = now + Lease
    /\ UNCHANGED <<now, file, paused, last, crashes>>

\* Mutant: the slot is taken without being written down.
ReserveUnsaved ==
    /\ Provider = "deepseek" /\ at = "check" /\ Open
    /\ at' = "asking"
    /\ last' = now
    /\ UNCHANGED <<now, file, expires, paused, crashes>>

\* The slot is free: it is written down (temporary file and rename) and used.
Reserve ==
    /\ Provider = "deepseek" /\ at = "check" /\ Open
    /\ file' = now
    /\ at' = "asking"
    /\ last' = now
    /\ UNCHANGED <<now, expires, paused, crashes>>

\* The cooldown is over.
PassCooldown ==
    /\ Provider = "quark" /\ at = "check" /\ Open
    /\ at' = "asking"
    /\ last' = now
    /\ UNCHANGED <<now, file, expires, paused, crashes>>

\* Mutant: the loop waits without asking the server.
WaitSilently ==
    /\ at = "check" /\ ~Open
    /\ at' = "sleep"
    /\ UNCHANGED <<now, file, expires, paused, last, crashes>>

\* Mutant: the wait hears a pause and does not renew the lease.
WaitUnrenewed ==
    /\ at = "check" /\ ~Open
    /\ at' = IF paused # Never THEN "idle" ELSE "sleep"
    /\ UNCHANGED <<now, file, expires, paused, last, crashes>>

\* Mutant: the sleep is the whole interval in one piece.
WaitForEver ==
    /\ at = "check" /\ ~Open
    /\ at' = IF paused # Never THEN "idle" ELSE "sleep"
    /\ expires' = now + Lease + Interval
    /\ UNCHANGED <<now, file, paused, last, crashes>>

\* The forced control call of the loop renews the lease and hears a pause.
WaitOn ==
    /\ at = "check" /\ ~Open
    /\ at' = IF paused # Never THEN "idle" ELSE "sleep"
    /\ expires' = now + Lease
    /\ UNCHANGED <<now, file, paused, last, crashes>>

\* stopped is set by a peer (DeepSeek only), or the control call raises.
GiveUp ==
    /\ at = "check" /\ ~Open
    /\ at' = "idle"
    /\ UNCHANGED <<now, file, expires, paused, last, crashes>>

\* Mutant: the cooldown counts from an attempt that was answered.
AnsweredUnmarked ==
    /\ at = "asking"
    /\ at' = "idle"
    /\ last' = IF Provider = "quark" THEN now ELSE last
    /\ \/ file' = IF Provider = "quark" THEN now ELSE file
       \/ UNCHANGED file
    /\ UNCHANGED <<now, expires, paused, crashes>>

\* The attempt returns or raises; Quark records the time in either case.
Answered ==
    /\ at = "asking"
    /\ at' = "idle"
    /\ last' = IF Provider = "quark" THEN now ELSE last
    /\ file' = IF Provider = "quark" THEN now ELSE file
    /\ UNCHANGED <<now, expires, paused, crashes>>

\* The process dies and its successor claims the task again.
Crash ==
    /\ crashes < MaxCrashes /\ crashes' = crashes + 1
    /\ at' = "idle"
    /\ last' = IF at = "asking" /\ Provider = "quark" THEN now ELSE last
    /\ UNCHANGED <<now, file, expires, paused>>

\* An operator pauses the task; once the thread has left, it is resumed.
Pause ==
    /\ paused = Never /\ at # "idle"
    /\ paused' = now
    /\ UNCHANGED <<now, file, at, expires, last, crashes>>

Resume ==
    /\ paused # Never /\ at = "idle"
    /\ paused' = Never
    /\ UNCHANGED <<now, file, at, expires, last, crashes>>

\* Time passes while the thread sleeps, is away or waits for its answer.
Tick ==
    /\ at # "check"
    /\ now < MaxTime /\ now' = now + 1
    /\ at' = IF at = "sleep" THEN "check" ELSE at
    /\ UNCHANGED <<file, expires, paused, last, crashes>>

Loop == Reserve \/ PassCooldown \/ WaitOn

Next == Tick \/ Enter \/ Loop \/ GiveUp \/ Answered \/ Crash \/ Pause \/ Resume

Spec == Init /\ [][Next]_vars

-----------------------------------------------------------------------------
(* Properties.                                                             *)

TypeOK ==
    /\ now \in 0..MaxTime /\ file \in Times /\ at \in Places
    /\ expires \in 0..(MaxTime + Lease) /\ paused \in Times /\ last \in Times
    /\ crashes \in 0..MaxCrashes

\* Two DeepSeek slots are an interval apart, over restarts, preemptions and
\* attempts that fail; a Quark attempt starts a cooldown after the end of the
\* one before it.
AttemptsSpaced ==
    [][at = "check" /\ at' = "asking" => last = Never \/ now - last >= Interval]_vars

\* A pause ends the wait at the next turn of the loop.
PauseHeeded == at \in {"check", "sleep"} /\ paused # Never => now <= paused + 1

\* However long the wait, the lease of the task does not run out in it.
LeaseKept == at \in {"check", "sleep"} => now <= expires
=============================================================================
