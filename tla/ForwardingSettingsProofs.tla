----------------------- MODULE ForwardingSettingsProofs -----------------------
(***************************************************************************)
(* The configuration in force is always whole, and its token one that      *)
(* somebody gave, for any number of consoles, POSTs, failed writes and     *)
(* restarts.                                                               *)
(***************************************************************************)
EXTENDS ForwardingSettings, TLAPS

(* Every place a token can come into force from holds a submitted one: the file that
   a restart reads, the environment, what a handler has read and what a POST carries. *)
TokensAreSubmitted ==
    /\ EnvConfig.token \in submitted
    /\ config.token \in submitted
    /\ file \in ConfigType => file.token \in submitted
    /\ \A c \in Consoles : current[c] \in submitted
    /\ \A c \in Consoles : body[c].token \in submitted \cup {Blank}

SettingsInv == TypeOK /\ TokensAreSubmitted

LEMMA InitSettings == Init => SettingsInv
<1> SUFFICES ASSUME Init PROVE SettingsInv
  OBVIOUS
<1>1. EnvConfig \in ConfigType /\ EnvConfig \in Body /\ EnvConfig.token \in Tokens
  BY FileAssumption DEF ConfigType, Body
<1>2. TypeOK
  BY <1>1 DEF Init, TypeOK
<1>3. TokensAreSubmitted
  BY <1>1 DEF Init, TokensAreSubmitted
<1> QED BY <1>2, <1>3 DEF SettingsInv

(* What a handler puts into force: the blank token stands for the one it has read. *)
LEMMA RequestIsWhole ==
    ASSUME SettingsInv, NEW c \in Consoles
    PROVE  Requested(c) \in ConfigType /\ Requested(c).token \in submitted
<1>1. body[c] \in Body /\ current[c] \in Tokens
  BY DEF SettingsInv, TypeOK
<1>2. body[c].token \in submitted \cup {Blank} /\ current[c] \in submitted
  BY DEF SettingsInv, TokensAreSubmitted
<1> QED BY <1>1, <1>2 DEF Requested, Body, ConfigType

(* A POST adds the token it carries to the submitted ones, or carries none. *)
LEMMA PostKeepsSettings ==
    ASSUME SettingsInv, NEW c \in Consoles, NEW b \in Body, Post(c, b),
           submitted' = submitted \cup ({b.token} \ {Blank})
    PROVE  SettingsInv'
<1>1. TypeOK'
  BY DEF SettingsInv, TypeOK, Post, Goto, storeVars, workerVars, Body
<1>2. TokensAreSubmitted'
  BY DEF SettingsInv, TypeOK, TokensAreSubmitted, Post, storeVars
<1> QED BY <1>1, <1>2 DEF SettingsInv

LEMMA UseKeepsSettings ==
    ASSUME SettingsInv, NEW c \in Consoles, Use(c) PROVE SettingsInv'
<1>1. ASSUME NEW p \in BOOLEAN, SetPaused(c, p) PROVE SettingsInv'
  <2> DEFINE b == [config EXCEPT !.paused = p, !.token = Blank]
  <2>1. b \in Body /\ b.token = Blank
    BY DEF SettingsInv, TypeOK, ConfigType, Body
  <2>2. Post(c, b) /\ submitted' = submitted
    BY <1>1 DEF SetPaused
  <2> HIDE DEF b
  <2> QED BY <2>1, <2>2, PostKeepsSettings
<1>2. ASSUME NEW t \in Tokens \cup {Blank}, SaveForwarding(c, t) PROVE SettingsInv'
  <2> DEFINE b == [paused |-> shown[c], token |-> t]
  <2>1. b \in Body /\ b.token = t
    BY DEF SettingsInv, TypeOK, Body
  <2>2. Post(c, b) /\ submitted' = submitted \cup ({t} \ {Blank})
    BY <1>2 DEF SaveForwarding
  <2> HIDE DEF b
  <2> QED BY <2>1, <2>2, PostKeepsSettings
<1>3. CASE Poll(c)
  BY <1>3 DEF Poll, SettingsInv, TypeOK, TokensAreSubmitted, storeVars, workerVars, boundVars
<1> QED BY <1>1, <1>2, <1>3 DEF Use

LEMMA HandleKeepsSettings ==
    ASSUME SettingsInv, NEW c \in Consoles, Handle(c) PROVE SettingsInv'
<1>0. config \in ConfigType /\ config.token \in Tokens
  BY DEF SettingsInv, TypeOK, ConfigType
<1>1. CASE ReadCurrent(c)
  BY <1>0, <1>1 DEF ReadCurrent, Goto, SettingsInv, TypeOK, TokensAreSubmitted,
                    storeVars, workerVars, consoleVars, boundVars
<1>2. CASE Replace(c) \/ ReplaceFails(c)
  <2>1. Requested(c) \in ConfigType /\ Requested(c).token \in submitted
    BY RequestIsWhole
  <2>2. /\ config' = Requested(c) /\ file' \in {file, Requested(c), Empty, Partial}
        /\ failures' \in Nat /\ pc' \in [Consoles -> {"idle", "read", "replace", "flag"}]
        /\ UNCHANGED <<up, pausedFlag, workerVars, body, current, consoleVars, posts, crashes>>
    BY <1>2 DEF Replace, ReplaceFails, Goto, SettingsInv, TypeOK, boundVars
  <2>3. TypeOK'
    BY <2>1, <2>2 DEF SettingsInv, TypeOK, workerVars, consoleVars
  <2>4. TokensAreSubmitted'
    BY <2>1, <2>2, FileAssumption DEF SettingsInv, TokensAreSubmitted, consoleVars
  <2> QED BY <2>3, <2>4 DEF SettingsInv
<1>3. CASE SetFlag(c)
  <2>1. body[c].paused \in BOOLEAN
    BY DEF SettingsInv, TypeOK, Body
  <2> QED BY <1>3, <2>1 DEF SetFlag, Goto, SettingsInv, TypeOK, TokensAreSubmitted,
                            storeVars, workerVars, consoleVars, boundVars
<1> QED BY <1>1, <1>2, <1>3 DEF Handle

LEMMA WorkKeepsSettings == ASSUME SettingsInv, Work PROVE SettingsInv'
<1>1. config.paused \in BOOLEAN
  BY DEF SettingsInv, TypeOK, ConfigType
<1> QED BY <1>1 DEF Work, WorkerRead, WorkerSet, SettingsInv, TypeOK, TokensAreSubmitted,
                    storeVars, consoleVars, boundVars

(* A crash may leave the file empty, which brings back the environment's configuration,
   or half written, which nothing is ever loaded from. *)
LEMMA RestartKeepsSettings ==
    ASSUME SettingsInv, Crash \/ LoadOrInit \/ LoadInterrupted PROVE SettingsInv'
<1>1. CASE Crash
  <2>1. up' = FALSE /\ UNCHANGED <<config, pausedFlag, workerVars, body, current,
                                   consoleVars, posts, failures>>
    BY <1>1 DEF Crash
  <2>2. file' \in {file, Empty, Partial}
    BY <1>1, Zenon DEF Crash
  <2>3. pc' \in [Consoles -> {"idle", "read", "replace", "flag"}]
    BY <1>1 DEF Crash
  <2>4. crashes' \in Nat
    BY <1>1 DEF Crash, SettingsInv, TypeOK
  <2>5. TypeOK'
    BY <2>1, <2>2, <2>3, <2>4 DEF SettingsInv, TypeOK, workerVars, consoleVars
  <2>6. TokensAreSubmitted'
    BY <2>1, <2>2, FileAssumption DEF SettingsInv, TokensAreSubmitted, consoleVars
  <2> QED BY <2>5, <2>6 DEF SettingsInv
<1>2. CASE LoadOrInit
  <2>1. config' \in ConfigType /\ config'.token \in submitted
    BY <1>2, FileAssumption DEF LoadOrInit, SettingsInv, TypeOK, TokensAreSubmitted
  <2> QED BY <1>2, <2>1 DEF LoadOrInit, SettingsInv, TypeOK, TokensAreSubmitted,
                            consoleVars, boundVars
<1>3. CASE LoadInterrupted
  BY <1>3, FileAssumption DEF LoadInterrupted, SettingsInv, TypeOK, TokensAreSubmitted,
                              workerVars, consoleVars
<1> QED BY <1>1, <1>2, <1>3

(* SettingsInv is inductive: no button, handler, worker step or restart loses it. *)
THEOREM SettingsAlwaysHold == Spec => []SettingsInv
<1>1. SettingsInv /\ [Next]_vars => SettingsInv'
  <2> SUFFICES ASSUME SettingsInv, [Next]_vars PROVE SettingsInv'
    OBVIOUS
  <2>1. CASE UNCHANGED vars
    BY <2>1 DEF vars, storeVars, workerVars, consoleVars, boundVars,
                SettingsInv, TypeOK, TokensAreSubmitted
  <2> QED BY <2>1, UseKeepsSettings, HandleKeepsSettings, WorkKeepsSettings,
             RestartKeepsSettings DEF Next
<1> QED BY <1>1, InitSettings, PTL DEF Spec

(* Neither a blank token nor half a file is ever in force. *)
THEOREM TypeCorrect == Spec => []TypeOK
<1>1. SettingsInv => TypeOK
  BY DEF SettingsInv
<1> QED BY <1>1, SettingsAlwaysHold, PTL

(* The token in force is the environment's or one that an operator typed, although
   consoles post back configurations whose token they were never shown. *)
THEOREM TokenStaysSubmitted == Spec => []TokenIsSubmitted
<1>1. SettingsInv => TokenIsSubmitted
  BY DEF SettingsInv, TokensAreSubmitted, TokenIsSubmitted
<1> QED BY <1>1, SettingsAlwaysHold, PTL
=============================================================================
