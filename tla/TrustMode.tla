-------------------------------- MODULE TrustMode --------------------------------
(***************************************************************************)
(* ModeManager (src/mysti/security/permissions.py): the trust level in     *)
(* memory and the file it is kept in.  A level is the number of its name,  *)
(* T0 to T5.  The observer `lost` records that a write of the file failed  *)
(* and none has succeeded since.                                           *)
(***************************************************************************)
EXTENDS Naturals

VARIABLES
    mode,           \* _mode
    modeFile,       \* mode.json: a level, or Unreadable
    agreed,         \* observer: the levels the user has confirmed
    lost            \* observer: the last write failed

modeVars == <<mode, modeFile, agreed, lost>>

TrustLevel == 0 .. 5

Unreadable == 6     \* no file, or one that does not hold a level

Risky == {3, 4}     \* the levels the user has to confirm

ModeTypeOK ==
    /\ mode \in TrustLevel
    /\ modeFile \in TrustLevel \cup {Unreadable}
    /\ agreed \in SUBSET Risky
    /\ lost \in BOOLEAN

\* _load
Loaded == IF modeFile = Unreadable THEN 0 ELSE modeFile

\* The program starts with any file the user has agreed to, or without one.
ModeInit ==
    /\ modeFile \in TrustLevel \cup {Unreadable}
    /\ agreed = Risky \cap {modeFile}
    /\ mode = Loaded
    /\ lost = FALSE

\* Mutation: only a raise to the highest level is confirmed.
NeedsConfirmation_T4(level) == level = 4 /\ level # mode

NeedsConfirmation(level) == level \in Risky /\ level # mode

\* The write fails before it touches the file, or after it has emptied it.
WriteMode(level) ==
    \/ modeFile' = level /\ lost' = FALSE
    \/ modeFile' \in {modeFile, Unreadable} /\ lost' = TRUE

\* The user agrees, or need not be asked.
SetMode(level) ==
    /\ mode' = level
    /\ WriteMode(level)
    /\ agreed' = IF NeedsConfirmation(level) THEN agreed \cup {level} ELSE agreed

\* The user declines: set_mode returns before it changes anything.
ModeDeclined(level) ==
    /\ NeedsConfirmation(level)
    /\ UNCHANGED modeVars

\* The program starts again.
ModeRestart ==
    /\ mode' = Loaded
    /\ lost' = FALSE
    /\ UNCHANGED <<modeFile, agreed>>

ModeNext == (\E level \in TrustLevel : SetMode(level) \/ ModeDeclined(level)) \/ ModeRestart

ModeSpec == ModeInit /\ [][ModeNext]_modeVars

-----------------------------------------------------------------------------
(* Properties *)

\* A level that allows network writes or automatic execution is in force or in the
\* file only if the user has confirmed it, across failing writes and restarts; and
\* the level in memory differs from the one the next start will have only after a
\* write has failed.
LevelsAgreed ==
    /\ Risky \cap {mode, modeFile} \subseteq agreed
    /\ mode # Loaded => lost
===================================================================================
