----------------------------- MODULE MCServices -----------------------------
(* The processes around the conversation in one small instance for TLC:    *)
(* scheduled jobs, the Telegram receivers with pairing, the log and the    *)
(* launcher.  They share no state, and a behaviour is one of the part that *)
(* Init chooses.                                                           *)
EXTENDS MCScheduler, MCTelegram, MCLauncher, Logging

VARIABLE part

ServicesInit ==
    /\ part \in {"scheduler", "telegram", "logging", "launcher"}
    /\ ScheduleInit /\ TelegramInit /\ LoggingInit /\ LauncherInit
    /\ polling => part = "telegram"

ServicesNext ==
    \/ /\ part = "scheduler" /\ ScheduleNext
       /\ UNCHANGED <<part, telegramVars, loggingVars, launcherVars>>
    \/ /\ part = "telegram" /\ TelegramNext
       /\ UNCHANGED <<part, scheduleVars, loggingVars, launcherVars>>
    \/ /\ part = "logging" /\ LoggingNext
       /\ UNCHANGED <<part, scheduleVars, telegramVars, launcherVars>>
    \/ /\ part = "launcher" /\ LauncherNext
       /\ UNCHANGED <<part, scheduleVars, telegramVars, loggingVars>>

ServicesSpec ==
    ServicesInit /\ [][ServicesNext]_<<part, scheduleVars, telegramVars, loggingVars, launcherVars>>

ServicesSymmetry == DispatcherSymmetry \cup ApproverSymmetry \cup CommandSymmetry
=============================================================================
