-------------------------------- MODULE Apps --------------------------------
(***************************************************************************)
(* One application at a time: the thread of the running application in     *)
(* src-heart/orchard-app.c, the event thread that starts it anew for the   *)
(* next one, the shell, whose test command asks for another application,   *)
(* and the timer that leads back to the launcher when the menu key is      *)
(* held.  Nobody calls orchardAppExit.                                     *)
(*                                                                         *)
(* The event thread preempts the application and the shell, and the        *)
(* timer's interrupt all.  Nothing guards what they share.                 *)
(***************************************************************************)
EXTENDS Naturals

CONSTANTS
  Apps, Launcher,  (* the first application is the launcher                *)
  None,            (* no application                                       *)
  Presses          (* bound: how often the menu key changes, or the shell  *)
                   (* runs the test command                                *)

ASSUME AppsAssumption == Launcher \in Apps /\ None \notin Apps /\ Presses \in Nat

VARIABLES
  pc,           (* the application's thread: "start", "check" and "wait" of *)
                (* its loop, "end", "decided", "cleared", "reset", or "dead" *)
  app, next,    (* instance.app and instance.next_app                      *)
  thr,          (* instance.thr points to the thread and not nowhere       *)
  term,         (* the thread's CH_FLAG_TERMINATE                          *)
  evt,          (* its orchard_app_terminate is pending                    *)
  ended,        (* orchard_app_terminated is pending in the event thread   *)
  held, touch,  (* the menu key, and the event that it has changed         *)
  engaged, armed, (* run_launcher_timer_engaged, and the timer             *)
  presses       (* changes of the key, and commands, left                  *)

keys == <<held, touch, engaged, armed, presses>>
appsVars == <<pc, app, next, thr, term, evt, ended, keys>>

Hooked == pc \in {"check", "wait"}

-----------------------------------------------------------------------------
(* The application's thread.                                               *)

(* Events are hooked and the application started.                          *)
Begin ==
  /\ pc = "start" /\ pc' = "check"
  /\ UNCHANGED <<app, next, thr, term, evt, ended, keys>>

Check ==
  /\ pc = "check"
  /\ pc' = IF term THEN "end" ELSE "wait"
  /\ UNCHANGED <<app, next, thr, term, evt, ended, keys>>

(* terminate.                                                              *)
Terminate ==
  /\ pc = "wait" /\ evt
  /\ evt' = FALSE /\ term' = TRUE /\ pc' = "check"
  /\ UNCHANGED <<app, next, thr, ended, keys>>

(* An event of the launcher, which calls orchardAppRun.                    *)
Run(a) ==
  /\ pc = "wait" /\ app = Launcher
  /\ next' = a /\ term' = TRUE /\ evt' = TRUE /\ pc' = "check"
  /\ UNCHANGED <<app, thr, ended, keys>>

(* testCommand of the shell, which calls orchardAppRun as well, whatever    *)
(* runs; the event thread is never seen between Release and Create.        *)
RunTest(a) ==
  /\ presses > 0 /\ presses' = presses - 1
  /\ thr
  /\ next' = a /\ term' = TRUE /\ evt' = (evt \/ Hooked)
  /\ UNCHANGED <<pc, app, thr, ended, held, touch, engaged, armed>>

(* The next application is read ...                                        *)
Decide ==
  /\ pc = "end" /\ pc' = "decided"
  /\ app' = IF next = None THEN Launcher ELSE next
  /\ UNCHANGED <<next, thr, term, evt, ended, keys>>

(* ... and cleared.                                                        *)
ClearNext ==
  /\ pc = "decided" /\ pc' = "cleared"
  /\ next' = None
  /\ UNCHANGED <<app, thr, term, evt, ended, keys>>

ResetTimer ==
  /\ pc = "cleared" /\ pc' = "reset"
  /\ armed' = FALSE
  /\ UNCHANGED <<app, next, thr, term, evt, ended, held, touch, engaged, presses>>

(* Mutant: the event is broadcast before the lock that the thread exits in. *)
ExitUnlocked ==
  /\ pc = "reset" /\ pc' \in {"reset", "dead"}
  /\ engaged' = FALSE /\ evt' = FALSE
  /\ ended' = TRUE
  /\ UNCHANGED <<app, next, thr, term, held, touch, armed, presses>>

(* Events are unhooked; the broadcast and the exit are one.                *)
Exit ==
  /\ pc = "reset" /\ pc' = "dead"
  /\ engaged' = FALSE /\ evt' = FALSE
  /\ ended' = TRUE
  /\ UNCHANGED <<app, next, thr, term, held, touch, armed, presses>>

-----------------------------------------------------------------------------
(* The event thread.  chThdRelease of orchardAppRestart ...                *)
Release ==
  /\ ended /\ thr
  /\ thr' = FALSE
  /\ UNCHANGED <<pc, app, next, term, evt, ended, keys>>

(* Mutant: the flags of the old thread remain.                             *)
CreateSame ==
  /\ ~thr
  /\ thr' = TRUE /\ ended' = FALSE /\ pc' = "start"
  /\ UNCHANGED <<app, next, term, evt, keys>>

(* ... and chThdCreateStatic, which also starts the first application.     *)
Create ==
  /\ ~thr
  /\ thr' = TRUE /\ ended' = FALSE /\ pc' = "start" /\ term' = FALSE
  /\ UNCHANGED <<app, next, evt, keys>>

(* poke_run_launcher_timer, once the key has changed.                      *)
Poke ==
  /\ touch /\ thr
  /\ touch' = FALSE
  /\ engaged' = held
  /\ armed' = IF engaged = held THEN armed ELSE held
  /\ UNCHANGED <<pc, app, next, thr, term, evt, ended, held, presses>>

Press ==
  /\ presses > 0 /\ presses' = presses - 1
  /\ held' = ~held /\ touch' = TRUE
  /\ UNCHANGED <<pc, app, next, thr, term, evt, ended, engaged, armed>>

-----------------------------------------------------------------------------
AppsInit ==
  /\ pc = "dead" /\ app = Launcher /\ next = None
  /\ thr = FALSE /\ term = FALSE /\ evt = FALSE /\ ended = FALSE
  /\ held = FALSE /\ touch = FALSE /\ engaged = FALSE /\ armed = FALSE
  /\ presses = Presses

(* Mutant: the flag alone, without the event.                              *)
RunLauncherSilent ==
  /\ armed /\ thr
  /\ next' = Launcher /\ term' = TRUE
  /\ armed' = FALSE /\ engaged' = FALSE
  /\ UNCHANGED <<pc, app, thr, evt, ended, held, touch, presses>>

(* run_launcher, an interrupt.                                             *)
RunLauncher ==
  /\ armed /\ thr
  /\ next' = Launcher /\ term' = TRUE /\ evt' = (evt \/ Hooked)
  /\ armed' = FALSE /\ engaged' = FALSE
  /\ UNCHANGED <<pc, app, thr, ended, held, touch, presses>>

(* Its write through the pointer that orchardAppRestart has just cleared   *)
(* is a fault, and the watchdog resets the badge.                          *)
Fault ==
  /\ armed /\ ~thr
  /\ pc' = "dead" /\ app' = Launcher /\ next' = None
  /\ thr' = FALSE /\ term' = FALSE /\ evt' = FALSE /\ ended' = FALSE
  /\ touch' = FALSE /\ engaged' = FALSE /\ armed' = FALSE
  /\ UNCHANGED <<held, presses>>

App == Begin \/ Check \/ Terminate \/ Decide \/ ClearNext \/ ResetTimer \/ Exit
EventThread == Release \/ Create \/ Poke
AppsNext ==
  \/ App \/ EventThread \/ Press \/ RunLauncher \/ Fault
  \/ \E a \in Apps : Run(a) \/ RunTest(a)

AppsSpec == AppsInit /\ [][AppsNext]_appsVars

(* All threads run, and the event thread first.                            *)
AppsFairSpec ==
  /\ AppsSpec /\ WF_appsVars(App)
  /\ WF_appsVars(Release) /\ WF_appsVars(Create) /\ WF_appsVars(Poke)

-----------------------------------------------------------------------------
Running == pc \in {"start", "check", "wait"}

(* A thread is told to end only by a request made while it runs: none is   *)
(* left over from the application before (orchard-app.c:1023-1027).        *)
AppsTypeOK ==
  /\ Running \/ pc \in {"end", "decided", "cleared", "reset", "dead"}
  /\ app \in Apps /\ next \in Apps \cup {None}
  /\ thr \in BOOLEAN /\ term \in BOOLEAN /\ evt \in BOOLEAN /\ ended \in BOOLEAN
  /\ held \in BOOLEAN /\ touch \in BOOLEAN /\ engaged \in BOOLEAN /\ armed \in BOOLEAN
  /\ presses \in 0..Presses
  /\ term /\ (Running \/ pc = "end") => next # None

(* "App thread still running" (orchard-app.c:1111): the working area is    *)
(* used again only when its thread is gone.                                *)
NoAssert == ended \/ ~thr => pc = "dead"

(* A request that comes while the application runs, even between the check *)
(* of its flag and its wait, ends the application and chooses the one asked *)
(* for, unless another one is asked for meanwhile.                         *)
Switches == \A a \in Apps :
  Running /\ term /\ next = a ~> (pc = "decided" /\ app = a) \/ next \notin {a, None}

(* After the end of an application the next one comes up and waits for     *)
(* events, even if the badge is reset in between.                          *)
ComesUp == pc = "dead" ~> pc = "wait"
=============================================================================
