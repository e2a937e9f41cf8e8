---------------------------- MODULE TerminalGuard ----------------------------
(***************************************************************************)
(* The RAII guard of the terminal (crates/latte-tui/src/lib.rs): enter     *)
(* switches five modes on, one after the other, and looks for an interrupt *)
(* after each; every way out drops the guard, which undoes what was        *)
(* committed; a panic of any thread runs the same restoration from the     *)
(* panic hook.  A terminal operation may fail, and may have taken effect   *)
(* although it failed.                                                     *)
(***************************************************************************)
EXTENDS Naturals, Sequences, FiniteSets

CONSTANT Threads        \* other threads of the process, which may panic

VARIABLES
    guard,      \* the thread of the interface: where it is, its outcome
    restorer,   \* who is inside restore_once, and at which stage
    stages,     \* TerminalStages: the modes to undo
    restored,   \* the flag that makes restoration idempotent
    modes,      \* the modes the terminal is in
    faulty,     \* modes of which some operation failed
    hooked,     \* whether the panic hook is the guard's
    signal,     \* SIGINT: registered, flag, arrived, noticed
    panicked    \* threads that have panicked

guardVars == <<guard, restorer, stages, restored, modes, faulty, hooked, signal, panicked>>

\* The order of entry; restoration goes back.
TerminalStage == <<"raw", "keyboard", "alternate", "mouse", "paste">>
Interface == "interface"
NoRestorer == [by |-> "nobody", at |-> 0]

ASSUME GuardAssumption == {Interface, NoRestorer.by} \cap Threads = {}

GuardInit ==
    /\ guard = [pc |-> "begin", at |-> 1, outcome |-> "none"]
    /\ restorer = NoRestorer
    /\ stages = {}
    /\ restored = FALSE
    /\ modes = {}
    /\ faulty = {}
    /\ hooked = FALSE
    /\ signal = [registered |-> FALSE, flag |-> FALSE, arrived |-> FALSE, noticed |-> FALSE]
    /\ panicked = {}

-----------------------------------------------------------------------------
(* Entering *)

LeaveWith(outcome) ==
    guard' = [guard EXCEPT !.pc = "drop", !.outcome = outcome]

\* signal_hook::flag::register, then the first look at the flag.
RegisterSignal ==
    /\ guard.pc = "begin"
    /\ \/ /\ signal' = [signal EXCEPT !.registered = TRUE]
          /\ guard' = [guard EXCEPT !.pc = "check"]
       \/ /\ LeaveWith("error")
          /\ UNCHANGED signal
    /\ UNCHANGED <<restorer, stages, restored, modes, faulty, hooked, panicked>>

\* check_interrupted, after each stage and before the next operation.
CheckInterrupted ==
    /\ guard.pc = "check"
    /\ IF signal.flag
       THEN /\ LeaveWith("interrupted")
            /\ signal' = [signal EXCEPT !.noticed = TRUE]
       ELSE /\ guard' = [guard EXCEPT !.pc = IF guard.at > Len(TerminalStage)
                                             THEN "hook" ELSE "enable"]
            /\ UNCHANGED signal
    /\ UNCHANGED <<restorer, stages, restored, modes, faulty, hooked, panicked>>

\* A bug the guard could have: the stage is committed when the next one begins.
StageOnLate(s) ==
    /\ modes' = modes \cup {s}
    /\ stages' = stages \cup modes
    /\ guard' = [guard EXCEPT !.pc = "check", !.at = @ + 1]
    /\ UNCHANGED faulty

StageOn(s) ==
    /\ modes' = modes \cup {s}
    /\ stages' = stages \cup {s}
    /\ guard' = [guard EXCEPT !.pc = "check", !.at = @ + 1]
    /\ UNCHANGED faulty

\* An operation succeeds and its stage is recorded; or it fails, with or without
\* effect, and entry ends; the keyboard protocol alone may be unsupported.
EnableStage ==
    /\ guard.pc = "enable"
    /\ LET s == TerminalStage[guard.at] IN
       \/ StageOn(s)
       \/ /\ modes' \in {modes, modes \cup {s}}
          /\ faulty' = faulty \cup {s}
          /\ LeaveWith("error")
          /\ UNCHANGED stages
       \/ /\ s = "keyboard"
          /\ guard' = [guard EXCEPT !.at = @ + 1]
          /\ UNCHANGED <<modes, stages, faulty>>
    /\ UNCHANGED <<restorer, restored, hooked, signal, panicked>>

\* The panic hook is replaced when every mode is on; the guard is returned.
InstallHook ==
    /\ guard.pc = "hook"
    /\ hooked' = TRUE
    /\ guard' = [guard EXCEPT !.pc = "running"]
    /\ UNCHANGED <<restorer, stages, restored, modes, faulty, signal, panicked>>

-----------------------------------------------------------------------------
(* The interface is running *)

\* take_interrupted: the flag is swapped and becomes the key Ctrl+C.
TakeInterrupted ==
    /\ guard.pc = "running"
    /\ signal.flag
    /\ signal' = [signal EXCEPT !.flag = FALSE, !.noticed = TRUE]
    /\ UNCHANGED <<guard, restorer, stages, restored, modes, faulty, hooked, panicked>>

\* The loop returns, with or without an error.
EndLoop ==
    /\ guard.pc = "running"
    /\ LeaveWith("ended")
    /\ UNCHANGED <<restorer, stages, restored, modes, faulty, hooked, signal, panicked>>

\* A thread panics: the hook restores the terminal; the interface then unwinds into
\* Drop, another thread goes its own way while the interface goes on.
PanicInterface ==
    /\ guard.pc = "running"
    /\ guard' = [guard EXCEPT !.pc = "panic", !.outcome = "panicked"]
    /\ UNCHANGED <<restorer, stages, restored, modes, faulty, hooked, signal, panicked>>

PanicThread(t) ==
    /\ t \notin panicked
    /\ hooked
    /\ panicked' = panicked \cup {t}
    /\ UNCHANGED <<guard, restorer, stages, restored, modes, faulty, hooked, signal>>

-----------------------------------------------------------------------------
(* restore_once: under the lock of `restored', once, in the reverse order *)

Wanting == panicked \cup (IF guard.pc \in {"panic", "drop"} THEN {Interface} ELSE {})

BeginRestore(r) ==
    /\ r \in Wanting
    /\ restorer = NoRestorer
    /\ ~restored
    /\ restorer' = [by |-> r, at |-> Len(TerminalStage)]
    /\ UNCHANGED <<guard, stages, restored, modes, faulty, hooked, signal, panicked>>

\* One committed stage is undone; a failure is ignored.
UndoStage ==
    /\ restorer # NoRestorer
    /\ restorer.at > 0
    /\ LET s == TerminalStage[restorer.at] IN
       IF s \in stages
       THEN /\ \/ modes' = modes \ {s} /\ UNCHANGED faulty
               \/ faulty' = faulty \cup {s} /\ UNCHANGED modes
            /\ stages' = stages \ {s}
       ELSE UNCHANGED <<modes, faulty, stages>>
    /\ restorer' = [restorer EXCEPT !.at = @ - 1]
    /\ UNCHANGED <<guard, restored, hooked, signal, panicked>>

EndRestore ==
    /\ restorer # NoRestorer
    /\ restorer.at = 0
    /\ restored' = TRUE
    /\ restorer' = NoRestorer
    /\ UNCHANGED <<guard, stages, modes, faulty, hooked, signal, panicked>>

\* The hook returns and the interface unwinds.
Unwind ==
    /\ guard.pc = "panic"
    /\ restored
    /\ restorer = NoRestorer
    /\ guard' = [guard EXCEPT !.pc = "drop"]
    /\ UNCHANGED <<restorer, stages, restored, modes, faulty, hooked, signal, panicked>>

\* Drop after its restore_once: the signal and the previous hook.
DropGuard ==
    /\ guard.pc = "drop"
    /\ restored
    /\ restorer = NoRestorer
    /\ signal' = [signal EXCEPT !.registered = FALSE]
    /\ hooked' = FALSE
    /\ guard' = [guard EXCEPT !.pc = "gone"]
    /\ UNCHANGED <<restorer, stages, restored, modes, faulty, panicked>>

\* The host delivers SIGINT.
Sigint ==
    /\ signal.registered
    /\ ~signal.arrived
    /\ signal' = [signal EXCEPT !.flag = TRUE, !.arrived = TRUE]
    /\ UNCHANGED <<guard, restorer, stages, restored, modes, faulty, hooked, panicked>>

GuardNext ==
    \/ RegisterSignal \/ CheckInterrupted \/ EnableStage \/ InstallHook
    \/ TakeInterrupted \/ EndLoop \/ PanicInterface \/ \E t \in Threads : PanicThread(t)
    \/ \E r \in Threads \cup {Interface} : BeginRestore(r)
    \/ UndoStage \/ EndRestore \/ Unwind \/ DropGuard \/ Sigint

GuardSpec == GuardInit /\ [][GuardNext]_guardVars

-----------------------------------------------------------------------------
(* However entry, the loop or another thread ends, a guard that is gone has *)
(* given the terminal back: no mode is on unless one of its own operations  *)
(* failed, and hook and signal are the previous ones.  Until then a mode is *)
(* never on without the modes that were entered before it, so restoration   *)
(* undoes them from the last to the first (restore_once_with_hook); and an  *)
(* interrupt is noticed or still flagged as long as the interface runs      *)
(* (check_interrupted, take_interrupted).                                   *)
TerminalIsReturned ==
    /\ guard.pc = "gone" => modes \subseteq faulty /\ ~hooked /\ ~signal.registered
    /\ \A i, j \in DOMAIN TerminalStage :
          (/\ i < j
           /\ TerminalStage[i] # "keyboard"
           /\ TerminalStage[j] \in modes \ faulty)
              => TerminalStage[i] \in modes \cup faulty
    /\ signal.arrived /\ guard.pc # "gone" =>
          signal.flag \/ signal.noticed
    /\ guard.outcome = "interrupted" => signal.arrived /\ ~hooked
=============================================================================
