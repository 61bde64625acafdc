----------------------------- MODULE ShowProofs -----------------------------
(***************************************************************************)
(* Theorems about Show, for any GPUs and presets and any number of         *)
(* rotations, selections, stops, failed publishes and lost commands.       *)
(***************************************************************************)
EXTENDS Show, SequenceTheorems, TLAPS

(***************************************************************************)
(* Types.                                                                  *)
(***************************************************************************)

StartupType ==
    /\ begun \subseteq GPU /\ mask \subseteq GPU
    /\ gateOpen \in BOOLEAN /\ bringup \in Stage /\ layersSet \in BOOLEAN
LoopType ==
    /\ at \in {"menu", "initial", "dwell", "refresh"}
    /\ menu \in 0 .. MaxNexts /\ stopping \in BOOLEAN
BeliefType ==
    /\ published \in BOOLEAN /\ suppressed \in BOOLEAN /\ fading \in BOOLEAN
    /\ active \in Layers /\ preset \in Preset /\ pending \in Preset
ChanType == chan \in [Observed -> Seq(Command)]
EngineType ==
    /\ enabled \in [Observed -> [Layers -> BOOLEAN]]
    /\ opacity \in [Observed -> [Layers -> Opacities]]
    /\ playing \in [Observed -> [Layers -> Preset \cup {None}]]
    /\ fade \in [Observed -> Layers \cup {NoFade}]
    /\ cut \in [Observed -> BOOLEAN] /\ refused \in [Observed -> BOOLEAN]
SpentType ==
    /\ spent \in [DOMAIN Budget -> Nat]
    /\ \A k \in DOMAIN Budget : spent[k] <= Budget[k]

\* A Next event is in the queue only after it was selected.
TypeInv ==
    /\ StartupType /\ LoopType /\ BeliefType /\ ChanType /\ EngineType /\ SpentType
    /\ menu <= spent["next"]

LEMMA TypeInvTypes == TypeInv => TypeOK
BY DEF TypeInv, TypeOK, StartupType, LoopType, BeliefType, ChanType, EngineType,
       SpentType

LEMMA Unmoved ==
    ASSUME TypeInv
    PROVE  /\ UNCHANGED startup => StartupType'
           /\ UNCHANGED loop => LoopType'
           /\ UNCHANGED belief => BeliefType'
           /\ UNCHANGED chan => ChanType'
           /\ UNCHANGED engine => EngineType'
           /\ UNCHANGED spent => SpentType'
BY DEF TypeInv, StartupType, LoopType, BeliefType, ChanType, EngineType, SpentType,
       startup, loop, belief, engine

LEMMA Constants ==
    /\ Preset \subseteq Nat /\ None \notin Preset
    /\ 0 \in Preset /\ \A p \in Preset : (p + 1) % PresetCount \in Preset
    /\ DOMAIN Budget = {"dwell", "next", "stop", "failure", "loss"}
    /\ Budget["next"] = MaxNexts /\ MaxNexts \in Nat
    /\ \A k \in DOMAIN Budget : Budget[k] \in Nat
    /\ GateOwner \in Observed /\ Observed \subseteq GPU
<1>1. /\ Preset \subseteq Nat /\ None \notin Preset
      /\ 0 \in Preset /\ \A p \in Preset : (p + 1) % PresetCount \in Preset
  BY ShowAssumption DEF Preset
<1>2. /\ DOMAIN Budget = {"dwell", "next", "stop", "failure", "loss"}
      /\ Budget["next"] = MaxNexts
  BY DEF Budget
<1>3. \A k \in DOMAIN Budget : Budget[k] \in Nat
  BY <1>2, ShowAssumption DEF Budget
<1>. QED  BY <1>1, <1>2, <1>3, ShowAssumption

LEMMA Commands ==
    /\ Enable \in Command
    /\ \A l \in Layers, on \in BOOLEAN : Active(l, on) \in Command
    /\ \A l \in Layers, o \in Opacities : SetOpacity(l, o) \in Command
    /\ \A l \in Layers, p \in Preset : Play(p, l) \in Command
    /\ \A l \in Layers : Swap(l, Other[l]) \in Command
    /\ \A ls \in SUBSET Layers : Stop(ls) \in Command
BY DEF Command

\* The fields of a command of each kind.
LEMMA Kinds ==
    \A c \in Command :
        /\ c.kind = "active" => c.layer \in Layers /\ c.on \in BOOLEAN
        /\ c.kind = "opacity" => c.layer \in Layers /\ c.value \in Opacities
        /\ c.kind = "play" => c.layer \in Layers /\ c.preset \in Preset
BY DEF Command, Enable, Active, SetOpacity, Play, Swap, Stop

LEMMA LayersAre ==
    /\ Layers = {"Fft", "FftAlt"} /\ "zero" \in Opacities /\ "full" \in Opacities
    /\ \A l \in Layers : Other[l] \in Layers /\ Other[l] # l /\ Other[Other[l]] = l
BY DEF Layers, Opacities, Other

LEMMA Spent ==
    ASSUME TypeInv, NEW k \in DOMAIN Budget, Spend(k)
    PROVE  /\ SpentType'
           /\ spent'[k] = spent[k] + 1
           /\ \A j \in DOMAIN Budget \ {k} : spent'[j] = spent[j]
BY Constants DEF TypeInv, SpentType, Spend

\* What a broadcast appends are commands.
LEMMA Sent ==
    ASSUME TypeInv, NEW cmds \in Seq(Command), Broadcast(cmds)
    PROVE  ChanType'
BY DEF TypeInv, ChanType, Broadcast

LEMMA Remains ==
    ASSUME NEW K, NEW cmds \in Seq(K), NEW n \in 0 .. Len(cmds) - 1,
           NEW place \in [1 .. n -> DOMAIN cmds]
    PROVE  [i \in 1 .. n |-> cmds[place[i]]] \in Seq(K)
<1>1. \A i \in 1 .. n : cmds[place[i]] \in K
  OBVIOUS
<1>. QED  BY <1>1

LEMMA Tried ==
    ASSUME TypeInv, NEW cmds \in Seq(Command), NEW ok \in BOOLEAN,
           TryAll(cmds, ok) \/ TryEach(cmds, ok)
    PROVE  ChanType' /\ SpentType' /\ spent'["next"] = spent["next"]
<1>1. CASE UNCHANGED spent /\ Broadcast(cmds)
  BY <1>1, Sent, Unmoved
<1>2. CASE Spend("failure") /\ \E s \in Seq(Command) : Broadcast(s)
  BY <1>2, Sent, Spent, Constants
<1>3. \A n \in 0 .. Len(cmds) - 1 : \A place \in [1 .. n -> DOMAIN cmds] :
         [i \in 1 .. n |-> cmds[place[i]]] \in Seq(Command)
  BY Remains
<1>4. \A i \in DOMAIN cmds : SubSeq(cmds, 1, i - 1) \in Seq(Command)
  OBVIOUS
<1>. QED  BY <1>1, <1>2, <1>3, <1>4 DEF TryAll, TryEach

LEMMA Batches ==
    /\ \A a \in Command : <<a>> \in Seq(Command)
    /\ \A a, b \in Command : <<a, b>> \in Seq(Command)
    /\ \A a, b, c, d \in Command : <<a, b, c, d>> \in Seq(Command)
    /\ \A a, b, c, d, e \in Command : <<a, b, c, d, e>> \in Seq(Command)
OBVIOUS

LEMMA Staged ==
    ASSUME TypeInv PROVE StageCommands \in Seq(Command)
<1>1. /\ (preset + 1) % PresetCount \in Preset
      /\ active \in Layers /\ Other[active] \in Layers
  BY LayersAre, Constants DEF TypeInv, BeliefType
<1>2. /\ Active(Other[active], TRUE) \in Command
      /\ SetOpacity(Other[active], "zero") \in Command
      /\ Play((preset + 1) % PresetCount, Other[active]) \in Command
      /\ Swap(active, Other[active]) \in Command
  BY <1>1, Commands, LayersAre
<1>. QED  BY <1>2, Batches DEF StageCommands

LEMMA InitTypes == Init => TypeInv
<1>. SUFFICES ASSUME Init PROVE TypeInv
  OBVIOUS
<1>1. spent \in [DOMAIN Budget -> Nat] /\ \A k \in DOMAIN Budget : spent[k] = 0
  BY DEF Init
<1>2. SpentType /\ spent["next"] = 0
  BY <1>1, Constants DEF SpentType
<1>3. ChanType
  BY DEF Init, ChanType
<1>4. LoopType /\ menu = 0
  <2>1. at = "menu" /\ menu = 0 /\ stopping = FALSE
    BY DEF Init
  <2>2. MaxNexts \in Nat
    BY Constants
  <2>3. 0 \in 0 .. MaxNexts
    BY <2>2
  <2>. QED  BY <2>1, <2>3 DEF LoopType
<1>5. EngineType
  BY LayersAre DEF Init, EngineType
<1>6. StartupType
  BY DEF Init, StartupType, Stage
<1>7. BeliefType
  BY Constants, LayersAre DEF Init, BeliefType
<1>. QED
  BY <1>2, <1>3, <1>4, <1>5, <1>6, <1>7 DEF TypeInv

\* Steps of the start-up.
LEMMA BringUpTypes ==
    ASSUME TypeInv,
           BringUp \/ \E g \in GPU : Begin(g) \/ Announce(g)
    PROVE  TypeInv'
<1>1. UNCHANGED loop /\ UNCHANGED belief /\ UNCHANGED engine
  BY DEF BringUp, MasterBegin, PublishEnable, PublishSweep, BootFinished, Begin,
         Announce
<1>2. LoopType' /\ BeliefType' /\ EngineType' /\ UNCHANGED menu
  BY <1>1, Unmoved DEF loop
<1>3. StartupType'
  BY DEF BringUp, MasterBegin, PublishEnable, PublishSweep, BootFinished, Begin,
         Announce, TypeInv, StartupType, Stage
<1>4. ChanType'
  <2>1. UNCHANGED chan \/ chan' = [chan EXCEPT ![GateOwner] = Append(@, Enable)]
    BY DEF BringUp, MasterBegin, PublishEnable, PublishSweep, BootFinished, Begin,
           Announce
  <2>2. CASE chan' = [chan EXCEPT ![GateOwner] = Append(@, Enable)]
    <3>1. Append(chan[GateOwner], Enable) \in Seq(Command)
      BY Commands, Constants DEF TypeInv, ChanType
    <3>. QED  BY <2>2, <3>1 DEF TypeInv, ChanType
  <2>. QED  BY <2>1, <2>2, Unmoved
<1>5. SpentType' /\ spent'["next"] = spent["next"]
  BY Unmoved, Spent, Constants
  DEF BringUp, MasterBegin, PublishEnable, PublishSweep, BootFinished, Begin,
      Announce
<1>. QED  BY <1>2, <1>3, <1>4, <1>5 DEF TypeInv

LEMMA StageTypes ==
    ASSUME TypeInv, StageNextFftVisual
    PROVE  /\ ChanType' /\ SpentType' /\ spent'["next"] = spent["next"]
           /\ fading' \in BOOLEAN /\ pending' \in Preset
<1>1. CASE fading
  BY <1>1, Unmoved DEF StageNextFftVisual, TypeInv, BeliefType
<1>2. CASE ~fading
  <2>. PICK ok \in BOOLEAN :
         /\ TryEach(StageCommands, ok) /\ fading' = ok
         /\ pending' = IF ok THEN (preset + 1) % PresetCount ELSE pending
    BY <1>2 DEF StageNextFftVisual
  <2>. QED  BY Staged, Tried, Constants DEF TypeInv, BeliefType
<1>. QED  BY <1>1, <1>2

\* Steps of the master's loop and of its subscribers.
LEMMA WorkTypes ==
    ASSUME TypeInv,
           Work \/ Due("dwell") \/ PressNext \/ OnAnimationStop
    PROVE  TypeInv'
<1>1. CASE HandleMenu
  <2>1. ChanType' /\ SpentType' /\ spent'["next"] = spent["next"]
        /\ fading' \in BOOLEAN /\ pending' \in Preset
    BY <1>1, StageTypes, Unmoved DEF HandleMenu, TypeInv, BeliefType
  <2>2. StartupType' /\ EngineType'
    BY <1>1, Unmoved DEF HandleMenu
  <2>3. LoopType' /\ BeliefType' /\ menu' <= spent["next"]
    BY <1>1, <2>1, Constants DEF HandleMenu, TypeInv, LoopType, BeliefType, SpentType
  <2>. QED  BY <2>1, <2>2, <2>3 DEF TypeInv
<1>2. CASE PublishLayerStartupState
  <2>1. /\ Active("Fft", TRUE) \in Command /\ Active("FftAlt", FALSE) \in Command
    BY Commands, LayersAre
  <2>2. ChanType' /\ SpentType' /\ spent'["next"] = spent["next"]
        /\ layersSet' \in BOOLEAN
    BY <1>2, <2>1, Batches, Tried DEF PublishLayerStartupState
  <2>3. LoopType' /\ BeliefType' /\ EngineType' /\ UNCHANGED menu
    BY <1>2, Unmoved DEF PublishLayerStartupState, loop
  <2>4. StartupType'
    BY <1>2, <2>2 DEF PublishLayerStartupState, TypeInv, StartupType
  <2>. QED  BY <2>2, <2>3, <2>4 DEF TypeInv
<1>3. CASE CompleteFft
  <2>1. BeliefType'
    BY <1>3, LayersAre DEF CompleteFft, TypeInv, BeliefType
  <2>. QED  BY <1>3, <2>1, Unmoved DEF CompleteFft, TypeInv, loop
<1>4. CASE \E what \in {"initial", "refresh", "dwell"} : Due(what)
  <2>1. LoopType' /\ UNCHANGED menu
    BY <1>4 DEF Due, TypeInv, LoopType
  <2>. QED  BY <1>4, <2>1, Unmoved DEF Due, TypeInv
<1>5. CASE PublishInitialFftVisual
  <2>1. /\ Active("Fft", TRUE) \in Command /\ SetOpacity("Fft", "full") \in Command
        /\ Active("FftAlt", FALSE) \in Command
        /\ SetOpacity("FftAlt", "zero") \in Command /\ Play(0, "Fft") \in Command
    BY Commands, LayersAre, Constants
  <2>2. ChanType' /\ SpentType' /\ spent'["next"] = spent["next"]
        /\ published' \in BOOLEAN
    BY <1>5, <2>1, Batches, Tried DEF PublishInitialFftVisual
  <2>3. StartupType' /\ EngineType'
    BY <1>5, Unmoved DEF PublishInitialFftVisual
  <2>4. LoopType' /\ BeliefType' /\ UNCHANGED menu
    BY <1>5, <2>2, Constants, LayersAre
    DEF PublishInitialFftVisual, TypeInv, LoopType, BeliefType
  <2>. QED  BY <2>2, <2>3, <2>4 DEF TypeInv
<1>6. CASE Rotate
  <2>1. ChanType' /\ SpentType' /\ spent'["next"] = spent["next"]
    BY <1>6, Staged, Sent, Spent, Tried, Constants DEF Rotate
  <2>2. StartupType' /\ EngineType'
    BY <1>6, Unmoved DEF Rotate
  <2>3. LoopType' /\ BeliefType' /\ UNCHANGED menu
    BY <1>6, Constants DEF Rotate, TypeInv, LoopType, BeliefType
  <2>. QED  BY <2>1, <2>2, <2>3 DEF TypeInv
<1>7. CASE Refresh
  <2>1. Play(preset, active) \in Command
    BY Commands DEF TypeInv, BeliefType
  <2>2. ChanType' /\ SpentType' /\ spent'["next"] = spent["next"]
    BY <1>7, <2>1, Batches, Tried DEF Refresh
  <2>3. LoopType' /\ UNCHANGED menu
    BY <1>7 DEF Refresh, TypeInv, LoopType
  <2>. QED  BY <1>7, <2>2, <2>3, Unmoved DEF Refresh, TypeInv
<1>8. CASE PressNext
  <2>1. SpentType' /\ spent'["next"] = spent["next"] + 1 /\ menu' = menu + 1
    BY <1>8, Spent, Constants DEF PressNext
  <2>2. LoopType' /\ menu' <= spent'["next"]
    BY <1>8, <2>1, Constants, ShowAssumption
    DEF PressNext, TypeInv, LoopType, SpentType
  <2>. QED  BY <1>8, <2>1, <2>2, Unmoved DEF PressNext, TypeInv
<1>9. CASE OnAnimationStop
  <2>1. LoopType' /\ BeliefType' /\ UNCHANGED menu
    BY <1>9 DEF OnAnimationStop, TypeInv, LoopType, BeliefType
  <2>. QED  BY <1>9, <2>1, Unmoved DEF OnAnimationStop, TypeInv
<1>. QED
  BY <1>1, <1>2, <1>3, <1>4, <1>5, <1>6, <1>7, <1>8, <1>9 DEF Work

\* A stop command, and a GPU's steps.
LEMMA GpuTypes ==
    ASSUME TypeInv,
           \/ \E ls \in SUBSET Layers : PublishStop(ls)
           \/ \E g \in Observed :
                 Lose(g) \/ Handle(g) \/ UpdateFade(g) \/ CompleteLayerFadeSwap(g)
    PROVE  TypeInv'
<1>1. CASE \E ls \in SUBSET Layers : PublishStop(ls)
  <2>. PICK ls \in SUBSET Layers : PublishStop(ls)
    BY <1>1
  <2>1. ChanType'
    BY Commands, Batches, Sent DEF PublishStop
  <2>2. SpentType' /\ spent'["next"] = spent["next"]
    BY Spent, Constants DEF PublishStop
  <2>3. LoopType' /\ UNCHANGED menu
    BY DEF PublishStop, TypeInv, LoopType
  <2>. QED  BY <2>1, <2>2, <2>3, Unmoved DEF PublishStop, TypeInv
<1>2. ASSUME NEW g \in Observed,
             Lose(g) \/ Handle(g) \/ UpdateFade(g) \/ CompleteLayerFadeSwap(g)
      PROVE  TypeInv'
  <2>1. UNCHANGED loop /\ UNCHANGED belief
    BY <1>2 DEF Lose, Handle, UpdateFade, CompleteLayerFadeSwap, OnEnable,
                SetLayerActive, SetLayerOpacity, PlayAnimation, StopAnimation,
                StartLayerFadeSwap
  <2>2. LoopType' /\ BeliefType' /\ UNCHANGED menu
    BY <2>1, Unmoved DEF loop
  <2>3. StartupType'
    BY <1>2, Unmoved
    DEF Lose, Handle, UpdateFade, CompleteLayerFadeSwap, OnEnable,
        SetLayerActive, SetLayerOpacity, PlayAnimation, StopAnimation,
        StartLayerFadeSwap, TypeInv, StartupType, startup
  <2>4. UNCHANGED chan \/ (chan[g] # <<>> /\ Take(g))
    BY <1>2 DEF Lose, Handle, UpdateFade, CompleteLayerFadeSwap, OnEnable,
                SetLayerActive, SetLayerOpacity, PlayAnimation, StopAnimation,
                StartLayerFadeSwap, Got
  <2>5. ChanType' /\ (chan[g] # <<>> => Head(chan[g]) \in Command)
    BY <2>4 DEF TypeInv, ChanType, Take
  <2>6. SpentType' /\ spent'["next"] = spent["next"]
    BY <1>2, Unmoved, Spent, Constants
    DEF Lose, Handle, UpdateFade, CompleteLayerFadeSwap, OnEnable,
        SetLayerActive, SetLayerOpacity, PlayAnimation, StopAnimation,
        StartLayerFadeSwap
  <2>7. EngineType'
    <3>1. CASE Lose(g) \/ OnEnable(g)
      BY <3>1, Unmoved DEF Lose, OnEnable
    <3>2. CASE SetLayerActive(g)
      <4>1. Head(chan[g]).layer \in Layers /\ Head(chan[g]).on \in BOOLEAN
        BY <3>2, <2>5, Kinds DEF SetLayerActive, Got
      <4>. QED
        BY <3>2, <4>1 DEF SetLayerActive, CancelFade, TypeInv, EngineType
    <3>3. CASE SetLayerOpacity(g)
      <4>1. Head(chan[g]).layer \in Layers /\ Head(chan[g]).value \in Opacities
        BY <3>3, <2>5, Kinds DEF SetLayerOpacity, Got
      <4>. QED
        BY <3>3, <4>1 DEF SetLayerOpacity, CancelFade, TypeInv, EngineType
    <3>4. CASE PlayAnimation(g)
      <4>1. Head(chan[g]).layer \in Layers /\ Head(chan[g]).preset \in Preset
        BY <3>4, <2>5, Kinds DEF PlayAnimation, Got
      <4>. QED
        BY <3>4, <4>1 DEF PlayAnimation, TypeInv, EngineType
    <3>5. CASE StopAnimation(g)
      BY <3>5 DEF StopAnimation, TypeInv, EngineType
    <3>6. CASE StartLayerFadeSwap(g)
      <4>1. CASE fade[g] # NoFade \/ SwapSources(g) = {}
        BY <3>6, <4>1 DEF StartLayerFadeSwap, TypeInv, EngineType
      <4>2. CASE ~(fade[g] # NoFade \/ SwapSources(g) = {})
        <5>. PICK from \in SwapSources(g) :
               /\ enabled' = [enabled EXCEPT ![g] = [l \in Layers |-> TRUE]]
               /\ opacity' = [opacity EXCEPT ![g] =
                                [l \in Layers |-> IF l = from THEN "full" ELSE "zero"]]
               /\ fade' = [fade EXCEPT ![g] = Other[from]]
          BY <3>6, <4>2 DEF StartLayerFadeSwap
        <5>1. from \in Layers /\ Other[from] \in Layers
          BY LayersAre DEF SwapSources
        <5>2. UNCHANGED <<playing, cut, refused>>
          BY <3>6, <4>2 DEF StartLayerFadeSwap
        <5>. QED  BY <5>1, <5>2, LayersAre DEF TypeInv, EngineType
      <4>. QED  BY <4>1, <4>2
    <3>7. CASE UpdateFade(g)
      <4>1. /\ [l \in Layers |-> "part"] \in [Layers -> Opacities]
            /\ [l \in Layers |-> IF l = fade[g] THEN "full" ELSE "zero"]
                  \in [Layers -> Opacities]
        BY DEF Opacities
      <4>2. \E o \in [Layers -> Opacities] : opacity' = [opacity EXCEPT ![g] = o]
        BY <3>7, <4>1 DEF UpdateFade
      <4>. QED  BY <3>7, <4>2 DEF UpdateFade, TypeInv, EngineType
    <3>8. CASE CompleteLayerFadeSwap(g)
      BY <3>8, LayersAre DEF CompleteLayerFadeSwap, TypeInv, EngineType
    <3>. QED
      BY <1>2, <3>1, <3>2, <3>3, <3>4, <3>5, <3>6, <3>7, <3>8 DEF Handle
  <2>. QED  BY <2>2, <2>3, <2>5, <2>6, <2>7 DEF TypeInv
<1>. QED  BY <1>1, <1>2

LEMMA TypeStep == TypeInv /\ [Next]_vars => TypeInv'
<1>. SUFFICES ASSUME TypeInv, [Next]_vars PROVE TypeInv'
  OBVIOUS
<1>1. CASE UNCHANGED vars
  BY <1>1, Unmoved DEF vars, TypeInv, loop
<1>2. CASE Next
  <2>1. \A ls \in {Layers} \cup {{l} : l \in Layers} : ls \in SUBSET Layers
    OBVIOUS
  <2>. QED  BY <1>2, <2>1, BringUpTypes, WorkTypes, GpuTypes DEF Next
<1>. QED  BY <1>1, <1>2

\* Every variable of the show keeps its type.
THEOREM TypeCorrect == Spec => []TypeOK
<1>1. Spec => []TypeInv
  BY InitTypes, TypeStep, PTL DEF Spec
<1>. QED  BY <1>1, TypeInvTypes, PTL

(***************************************************************************)
(* The start.  Before every GPU has begun nobody is sent the enable        *)
(* command; before the boot animation has ended nobody is sent a visual.   *)
(***************************************************************************)
NoEnable == {c \in Command : c.kind # "enable"}
NoVisual == {c \in Command : c.kind \notin {"play", "swap"}}

StartInv ==
    /\ mask \subseteq begun
    /\ bringup \in {"enabled", "booting", "normal"} => begun = GPU
    /\ begun # GPU => ~gateOpen /\ \A g \in Observed : chan[g] \in Seq(NoEnable)
    /\ at # "menu" => NormalOperation
    /\ ~NormalOperation =>
          \A g \in Observed :
             chan[g] \in Seq(NoVisual) /\ \A l \in Layers : playing[g][l] = None

\* Short sequences of members of a set, and sequences with one command less.
LEMMA Sequences ==
    ASSUME NEW K
    PROVE  /\ \A a \in K : <<a>> \in Seq(K)
           /\ \A a, b \in K : <<a, b>> \in Seq(K)
           /\ \A a, b, c, d \in K : <<a, b, c, d>> \in Seq(K)
           /\ \A a, b, c, d, e \in K : <<a, b, c, d, e>> \in Seq(K)
           /\ \A s \in Seq(K), e \in K : Append(s, e) \in Seq(K)
           /\ \A s, t \in Seq(K) : s \o t \in Seq(K)
           /\ \A s \in Seq(K) : s # <<>> => Tail(s) \in Seq(K) /\ Head(s) \in K
OBVIOUS

LEMMA Broadcasts ==
    ASSUME NEW K, NEW cmds \in Seq(K), NEW ok \in BOOLEAN,
           TryAll(cmds, ok) \/ TryEach(cmds, ok)
    PROVE  \E s \in Seq(K) : Broadcast(s)
<1>1. \A n \in 0 .. Len(cmds) - 1 : \A place \in [1 .. n -> DOMAIN cmds] :
         [i \in 1 .. n |-> cmds[place[i]]] \in Seq(K)
  BY Remains
<1>2. \A i \in DOMAIN cmds : SubSeq(cmds, 1, i - 1) \in Seq(K)
  OBVIOUS
<1>. QED  BY <1>1, <1>2 DEF TryAll, TryEach

LEMMA StagedKinds ==
    ASSUME TypeInv PROVE StageCommands \in Seq(NoEnable)
<1>1. /\ (preset + 1) % PresetCount \in Preset
      /\ active \in Layers /\ Other[active] \in Layers
  BY LayersAre, Constants DEF TypeInv, BeliefType
<1>2. /\ Active(Other[active], TRUE) \in NoEnable
      /\ SetOpacity(Other[active], "zero") \in NoEnable
      /\ Play((preset + 1) % PresetCount, Other[active]) \in NoEnable
      /\ Swap(active, Other[active]) \in NoEnable
  BY <1>1, Commands, LayersAre DEF NoEnable, Active, SetOpacity, Play, Swap
<1>. QED  BY <1>2, Sequences, Zenon DEF StageCommands

\* How a step changes the channels.
LEMMA ChanStep ==
    ASSUME TypeInv, StartInv, [Next]_vars
    PROVE  \/ UNCHANGED chan
           \/ \E g \in Observed : chan[g] # <<>> /\ Take(g)
           \/ AllReady /\ chan' = [chan EXCEPT ![GateOwner] = Append(@, Enable)]
           \/ \E s \in Seq(NoVisual \cap NoEnable) : Broadcast(s)
           \/ NormalOperation /\ \E s \in Seq(NoEnable) : Broadcast(s)
<1>1. CASE UNCHANGED vars
  BY <1>1 DEF vars
<1>2. CASE BringUp \/ \E g \in GPU : Begin(g) \/ Announce(g)
  BY <1>2 DEF BringUp, MasterBegin, PublishEnable, PublishSweep, BootFinished, Begin,
              Announce
<1>3. CASE \E g \in Observed :
             Lose(g) \/ Handle(g) \/ UpdateFade(g) \/ CompleteLayerFadeSwap(g)
  BY <1>3 DEF Lose, Handle, UpdateFade, CompleteLayerFadeSwap, OnEnable,
              SetLayerActive, SetLayerOpacity, PlayAnimation, StopAnimation,
              StartLayerFadeSwap, Got
<1>4. CASE \E ls \in {Layers} \cup {{l} : l \in Layers} : PublishStop(ls)
  <2>1. PICK ls \in SUBSET Layers : PublishStop(ls)
    BY <1>4
  <2>2. Stop(ls) \in NoVisual \cap NoEnable
    BY Commands DEF NoVisual, NoEnable, Stop
  <2>3. <<Stop(ls)>> \in Seq(NoVisual \cap NoEnable)
    BY <2>2, Sequences, Zenon
  <2>. QED  BY <2>1, <2>3 DEF PublishStop
<1>5. CASE HandleMenu
  BY <1>5, StagedKinds, Broadcasts DEF HandleMenu, StageNextFftVisual
<1>6. CASE PublishLayerStartupState
  <2>1. /\ Active("Fft", TRUE) \in NoVisual \cap NoEnable
        /\ Active("FftAlt", FALSE) \in NoVisual \cap NoEnable
    BY Commands, LayersAre DEF NoVisual, NoEnable, Active
  <2>2. <<Active("Fft", TRUE), Active("FftAlt", FALSE)>> \in Seq(NoVisual \cap NoEnable)
    BY <2>1, Sequences, Zenon
  <2>. QED  BY <1>6, <2>2, Broadcasts DEF PublishLayerStartupState
<1>7. CASE PublishInitialFftVisual
  <2>1. /\ Active("Fft", TRUE) \in NoEnable /\ SetOpacity("Fft", "full") \in NoEnable
        /\ Active("FftAlt", FALSE) \in NoEnable
        /\ SetOpacity("FftAlt", "zero") \in NoEnable /\ Play(0, "Fft") \in NoEnable
    BY Commands, LayersAre, Constants DEF NoEnable, Active, SetOpacity, Play
  <2>2. <<Active("Fft", TRUE), SetOpacity("Fft", "full"), Active("FftAlt", FALSE),
          SetOpacity("FftAlt", "zero"), Play(0, "Fft")>> \in Seq(NoEnable)
    BY <2>1, Sequences, Zenon
  <2>. QED  BY <1>7, <2>2, Broadcasts DEF PublishInitialFftVisual, StartInv
<1>8. CASE Rotate
  BY <1>8, StagedKinds, Broadcasts DEF Rotate, StartInv
<1>9. CASE Refresh
  <2>1. Play(preset, active) \in NoEnable
    BY Commands DEF NoEnable, Play, TypeInv, BeliefType
  <2>2. <<Play(preset, active)>> \in Seq(NoEnable)
    BY <2>1, Sequences, Zenon
  <2>. QED  BY <1>9, <2>2, Broadcasts DEF Refresh, StartInv
<1>10. CASE CompleteFft \/ PressNext \/ OnAnimationStop
            \/ \E what \in {"initial", "refresh", "dwell"} : Due(what)
  BY <1>10 DEF CompleteFft, PressNext, OnAnimationStop, Due
<1>. QED
  BY <1>1, <1>2, <1>3, <1>4, <1>5, <1>6, <1>7, <1>8, <1>9, <1>10 DEF Next, Work

LEMMA InitStart == Init => StartInv
<1>. SUFFICES ASSUME Init PROVE StartInv
  OBVIOUS
<1>1. \A g \in Observed : chan[g] \in Seq(NoEnable) /\ chan[g] \in Seq(NoVisual)
  BY DEF Init
<1>. QED  BY <1>1 DEF Init, StartInv, NormalOperation

\* Which steps move the other variables of the invariant.
LEMMA StartMoves ==
    ASSUME TypeInv, [Next]_vars
    PROVE  /\ \/ BringUp \/ \E g \in GPU : Begin(g) \/ Announce(g)
              \/ UNCHANGED <<begun, mask, bringup>>
           /\ UNCHANGED at \/ at' = "menu" \/ NormalOperation
           /\ \/ UNCHANGED gateOpen
              \/ \E g \in Observed : chan[g] # <<>> /\ Head(chan[g]).kind = "enable"
           /\ \/ UNCHANGED playing
              \/ \E g \in Observed :
                    /\ chan[g] # <<>> /\ Head(chan[g]).kind = "play"
              \/ \A g \in Observed, l \in Layers :
                    playing'[g][l] \in {None, playing[g][l]}
<1>1. CASE UNCHANGED vars
  BY <1>1 DEF vars, startup, loop, engine
<1>2. CASE BringUp \/ \E g \in GPU : Begin(g) \/ Announce(g)
  BY <1>2 DEF BringUp, MasterBegin, PublishEnable, PublishSweep, BootFinished, Begin,
              Announce, loop, engine
<1>3. CASE \E ls \in {Layers} \cup {{l} : l \in Layers} : PublishStop(ls)
  BY <1>3 DEF PublishStop, startup, engine
<1>4. CASE Work \/ Due("dwell") \/ PressNext \/ OnAnimationStop
  BY <1>4 DEF Work, HandleMenu, PublishLayerStartupState, CompleteFft, Due, Proceeding,
              PublishInitialFftVisual, Rotate, Refresh, PressNext, OnAnimationStop,
              startup, loop, engine
<1>5. ASSUME NEW g \in Observed,
             Lose(g) \/ Handle(g) \/ UpdateFade(g) \/ CompleteLayerFadeSwap(g)
      PROVE  /\ UNCHANGED <<begun, mask, bringup, at>>
             /\ \/ UNCHANGED gateOpen
                \/ chan[g] # <<>> /\ Head(chan[g]).kind = "enable"
             /\ \/ UNCHANGED playing
                \/ chan[g] # <<>> /\ Head(chan[g]).kind = "play"
                \/ \A h \in Observed, l \in Layers :
                      playing'[h][l] \in {None, playing[h][l]}
  <2>1. UNCHANGED <<begun, mask, bringup, at>>
    BY <1>5 DEF Lose, Handle, UpdateFade, CompleteLayerFadeSwap, OnEnable,
                SetLayerActive, SetLayerOpacity, PlayAnimation, StopAnimation,
                StartLayerFadeSwap, startup, loop
  <2>2. UNCHANGED gateOpen \/ (chan[g] # <<>> /\ Head(chan[g]).kind = "enable")
    BY <1>5 DEF Lose, Handle, UpdateFade, CompleteLayerFadeSwap, OnEnable, Got,
                SetLayerActive, SetLayerOpacity, PlayAnimation, StopAnimation,
                StartLayerFadeSwap, startup
  <2>3. CASE StopAnimation(g)
    BY <2>1, <2>2, <2>3 DEF StopAnimation, TypeInv, EngineType
  <2>4. CASE CompleteLayerFadeSwap(g)
    BY <2>1, <2>2, <2>4 DEF CompleteLayerFadeSwap, TypeInv, EngineType
  <2>5. CASE PlayAnimation(g)
    BY <2>1, <2>2, <2>5 DEF PlayAnimation, Got
  <2>6. CASE ~(StopAnimation(g) \/ CompleteLayerFadeSwap(g) \/ PlayAnimation(g))
    BY <1>5, <2>1, <2>2, <2>6
    DEF Lose, Handle, UpdateFade, OnEnable, SetLayerActive, SetLayerOpacity,
        StartLayerFadeSwap, engine
  <2>. QED  BY <2>3, <2>4, <2>5, <2>6
<1>. QED
  BY <1>1, <1>2, <1>3, <1>4, <1>5 DEF Next

LEMMA StartStep == TypeInv /\ StartInv /\ [Next]_vars => StartInv'
<1>. SUFFICES ASSUME TypeInv, StartInv, [Next]_vars PROVE StartInv'
  OBVIOUS
<1>1. /\ mask' \subseteq begun' /\ begun \subseteq begun' /\ begun' \subseteq GPU
      /\ bringup' \in {"enabled", "booting", "normal"} => begun' = GPU
      /\ NormalOperation => NormalOperation'
  <2>1. CASE BringUp \/ \E g \in GPU : Begin(g) \/ Announce(g)
    BY <2>1 DEF BringUp, MasterBegin, PublishEnable, PublishSweep, BootFinished,
                Begin, Announce, AllReady, NormalOperation, StartInv, TypeInv,
                StartupType
  <2>2. CASE UNCHANGED <<begun, mask, bringup>>
    BY <2>2 DEF StartInv, TypeInv, StartupType, NormalOperation
  <2>. QED  BY <2>1, <2>2, StartMoves
<1>2. ASSUME begun' # GPU, NEW g \in Observed PROVE chan'[g] \in Seq(NoEnable)
  <2>1. chan[g] \in Seq(NoEnable) /\ ~AllReady
    BY <1>1, <1>2 DEF StartInv, TypeInv, StartupType, AllReady
  <2>2. CASE \E h \in Observed : chan[h] # <<>> /\ Take(h)
    <3>1. chan'[g] = chan[g] \/ (chan[g] # <<>> /\ chan'[g] = Tail(chan[g]))
      BY <2>2 DEF Take, TypeInv, ChanType
    <3>. QED  BY <2>1, <3>1, Sequences, Zenon
  <2>3. CASE \E s \in Seq(NoEnable) : Broadcast(s)
    <3>. PICK s \in Seq(NoEnable) : Broadcast(s)
      BY <2>3
    <3>1. chan'[g] = chan[g] \o s
      BY DEF Broadcast
    <3>. QED  BY <2>1, <3>1, Sequences, Zenon
  <2>4. \A s \in Seq(NoVisual \cap NoEnable) : s \in Seq(NoEnable)
    OBVIOUS
  <2>5. CASE UNCHANGED chan
    BY <2>1, <2>5
  <2>6. \/ \E h \in Observed : chan[h] # <<>> /\ Take(h)
        \/ \E s \in Seq(NoEnable) : Broadcast(s)
        \/ UNCHANGED chan
    BY <2>1, <2>4, ChanStep, Zenon
  <2>. QED  BY <2>2, <2>3, <2>5, <2>6
<1>3. ASSUME begun' # GPU PROVE ~gateOpen'
  <2>1. \A g \in Observed : chan[g] \in Seq(NoEnable) /\ ~gateOpen
    BY <1>1, <1>3 DEF StartInv, TypeInv, StartupType
  <2>2. \A g \in Observed : chan[g] # <<>> => Head(chan[g]).kind # "enable"
    <3>1. \A h \in Observed : chan[h] # <<>> => Head(chan[h]) \in NoEnable
      BY <2>1, Sequences, Zenon
    <3>. QED  BY <3>1 DEF NoEnable
  <2>. QED  BY <2>1, <2>2, StartMoves, Constants DEF TypeInv, StartupType
<1>4. at' # "menu" => NormalOperation'
  BY <1>1, StartMoves DEF StartInv
<1>5. ASSUME ~NormalOperation', NEW g \in Observed PROVE chan'[g] \in Seq(NoVisual)
  <2>1. chan[g] \in Seq(NoVisual) /\ ~NormalOperation
    BY <1>1, <1>5 DEF StartInv
  <2>2. CASE \E h \in Observed : chan[h] # <<>> /\ Take(h)
    <3>1. chan'[g] = chan[g] \/ (chan[g] # <<>> /\ chan'[g] = Tail(chan[g]))
      BY <2>2 DEF Take, TypeInv, ChanType
    <3>. QED  BY <2>1, <3>1, Sequences, Zenon
  <2>3. CASE \E s \in Seq(NoVisual) : Broadcast(s)
    <3>. PICK s \in Seq(NoVisual) : Broadcast(s)
      BY <2>3
    <3>1. chan'[g] = chan[g] \o s
      BY DEF Broadcast
    <3>. QED  BY <2>1, <3>1, Sequences, Zenon
  <2>4. CASE chan' = [chan EXCEPT ![GateOwner] = Append(@, Enable)]
    <3>1. Enable \in NoVisual
      BY Commands DEF NoVisual, Enable
    <3>2. chan'[g] = chan[g] \/ chan'[g] = Append(chan[g], Enable)
      BY <2>4 DEF TypeInv, ChanType
    <3>. QED  BY <2>1, <3>1, <3>2, Sequences, Zenon
  <2>5. \A s \in Seq(NoVisual \cap NoEnable) : s \in Seq(NoVisual)
    OBVIOUS
  <2>6. CASE UNCHANGED chan
    BY <2>1, <2>6
  <2>7. \/ \E h \in Observed : chan[h] # <<>> /\ Take(h)
        \/ \E s \in Seq(NoVisual) : Broadcast(s)
        \/ chan' = [chan EXCEPT ![GateOwner] = Append(@, Enable)]
        \/ UNCHANGED chan
    BY <2>1, <2>5, ChanStep, Zenon
  <2>. QED  BY <2>2, <2>3, <2>4, <2>6, <2>7
<1>6. ASSUME ~NormalOperation', NEW g \in Observed, NEW l \in Layers
      PROVE  playing'[g][l] = None
  <2>1. \A h \in Observed : chan[h] \in Seq(NoVisual) /\ playing[h][l] = None
    BY <1>1, <1>6 DEF StartInv
  <2>2. \A h \in Observed : chan[h] # <<>> => Head(chan[h]).kind # "play"
    <3>1. \A h \in Observed : chan[h] # <<>> => Head(chan[h]) \in NoVisual
      BY <2>1, Sequences, Zenon
    <3>. QED  BY <3>1 DEF NoVisual
  <2>. QED  BY <2>1, <2>2, StartMoves
<1>. QED  BY <1>1, <1>2, <1>3, <1>4, <1>5, <1>6 DEF StartInv

LEMMA StartAlways == Spec => [](TypeInv /\ StartInv)
BY InitTypes, InitStart, TypeStep, StartStep, PTL DEF Spec

\* The gate is opened only when every GPU's local output is initialised.
THEOREM GateSafe == Spec => []GateAfterReady
<1>1. StartInv => GateAfterReady
  BY DEF StartInv, GateAfterReady
<1>. QED  BY <1>1, StartAlways, PTL

\* Until the boot animation has ended no GPU is sent, or shows, an FFT visual.
THEOREM NothingBeforeBoot == Spec => []HeldUntilBooted
<1>1. TypeInv /\ StartInv => HeldUntilBooted
  <2>. SUFFICES ASSUME TypeInv, StartInv, ~NormalOperation, NEW g \in Observed
                PROVE  /\ \A i \in DOMAIN chan[g] : chan[g][i].kind \notin {"play", "swap"}
                       /\ \A l \in Layers : playing[g][l] = None
    BY DEF HeldUntilBooted
  <2>1. chan[g] \in Seq(NoVisual) /\ \A l \in Layers : playing[g][l] = None
    BY DEF StartInv
  <2>2. \A i \in DOMAIN chan[g] : chan[g][i] \in NoVisual
    BY <2>1
  <2>. QED  BY <2>1, <2>2 DEF NoVisual
<1>. QED  BY <1>1, StartAlways, PTL

(***************************************************************************)
(* What becomes of a GPU: a token says as much of its engine as is known   *)
(* after some of the commands on their way.                                *)
(***************************************************************************)
Following == {"rest", "ready", "loaded"}
Token == [of : {"any", "enabled", "full", "dark", "start"} \cup Following,
          layer : Layers, preset : Preset, next : Preset]
Tok(of, l, p, q) == [of |-> of, layer |-> l, preset |-> p, next |-> q]

\* What a GPU shows.  Whatever it shows, the initial visual brings it, command
\* by command, to one that is ready for a stage: its layer lit, the other dark.
\* A stage readies the other layer, loads it and fades to it.
Shows(s, c, t) ==
    \/ s.of = "any" /\ t = s
    \/ s.of = "any" /\ c = Active("Fft", TRUE) /\ t = Tok("enabled", "Fft", 0, 0)
    \/ s.of = "enabled" /\ c = SetOpacity(s.layer, "full") /\ t = [s EXCEPT !.of = "full"]
    \/ s.of = "full" /\ c = Active(Other[s.layer], FALSE) /\ t = s
    \/ s.of = "full" /\ c = SetOpacity(Other[s.layer], "zero") /\ t = [s EXCEPT !.of = "dark"]
    \/ s.of = "dark" /\ c = Play(s.preset, s.layer) /\ t = [s EXCEPT !.of = "ready"]
    \/ /\ s.of \in Following
       /\ \/ /\ c = Active(Other[s.layer], TRUE) \/ c = SetOpacity(Other[s.layer], "zero")
             /\ t = [s EXCEPT !.of = "ready"]
          \/ /\ s.of # "rest" /\ c = Play(t.next, Other[s.layer])
             /\ t = [s EXCEPT !.of = "loaded", !.next = t.next]
          \/ c = Play(s.preset, s.layer) /\ t = s
          \/ /\ s.of = "loaded" /\ c = Swap(s.layer, Other[s.layer])
             /\ t = Tok("rest", Other[s.layer], s.next, s.next)

Matches(g, s) ==
    LET l == s.layer
        lit == enabled[g][l] /\ opacity[g][l] = "full" /\ opacity[g][Other[l]] = "zero"
    IN  /\ s.of # "start"
        /\ s.of \notin {"any", "rest"} => fade[g] = NoFade /\ enabled[g][l]
        /\ s.of = "full" => opacity[g][l] = "full"
        /\ s.of \in {"dark", "ready", "loaded"} => lit
        /\ s.of \in Following => playing[g][l] = s.preset
        /\ s.of = "loaded" => playing[g][Other[l]] = s.next
        /\ s.of = "rest" => fade[g] = l \/ (fade[g] = NoFade /\ lit)

\* Whether a GPU accepts a swap: its layer is bright, or, before the first
\* stage, not known to be dark.
Accepts(s, c, t) ==
    /\ s.of \in {"start", "rest", "ready"}
    /\ \/ c.kind = "active" /\ t = [s EXCEPT !.of = IF @ = "rest" THEN "ready" ELSE @]
       \/ c = SetOpacity("Fft", "full") /\ t = [s EXCEPT !.of = "start", !.layer = "Fft"]
       \/ c = SetOpacity(Other[s.layer], "zero") /\ t = [s EXCEPT !.of = "ready"]
       \/ c.kind \in {"play", "enable", "stop"} /\ t = s
       \/ s.of = "ready" /\ c.kind = "swap" /\ t = [s EXCEPT !.of = "rest", !.layer = Other[@]]

Fits(g, s) ==
    LET l == s.layer
        bright == opacity[g][l] = "full" /\ opacity[g][Other[l]] = "zero"
    IN  /\ s.of \in {"start", "rest", "ready"}
        /\ s.of = "start" => l = "Fft" /\ fade[g] = NoFade /\ opacity[g][l] = "full"
        /\ s.of = "rest" => fade[g] = l \/ (fade[g] = NoFade /\ bright)
        /\ s.of = "ready" => fade[g] = NoFade /\ bright

(***************************************************************************)
(* Commands one after the other.                                           *)
(***************************************************************************)
Goes(k, s, c, t) == IF k = "shows" THEN Shows(s, c, t) ELSE Accepts(s, c, t)

\* Commands cmds lead from token s to token t.
Leads(k, s, cmds, t) ==
    \E e \in [0 .. Len(cmds) -> Token] :
        /\ e[0] = s /\ e[Len(cmds)] = t
        /\ \A i \in 1 .. Len(cmds) : Goes(k, e[i - 1], cmds[i], e[i])

LEMMA LeadsNone ==
    ASSUME NEW k, NEW s \in Token, NEW t
    PROVE  Leads(k, s, <<>>, t) <=> s = t
<1>1. ASSUME s = t PROVE Leads(k, s, <<>>, t)
  <2> DEFINE e == [i \in 0 .. Len(<<>>) |-> s]
  <2>1. e \in [0 .. Len(<<>>) -> Token] /\ e[0] = s /\ e[Len(<<>>)] = t
    BY <1>1
  <2>2. 1 .. Len(<<>>) = {}
    OBVIOUS
  <2>. QED  BY <2>1, <2>2 DEF Leads
<1>2. Len(<<>>) = 0
  OBVIOUS
<1>. QED  BY <1>1, <1>2 DEF Leads

LEMMA LeadsOn ==
    ASSUME NEW k, NEW cmds \in Seq(Command), NEW c \in Command,
           NEW s \in Token, NEW t \in Token, NEW u \in Token,
           Leads(k, s, cmds, t), Goes(k, t, c, u)
    PROVE  Leads(k, s, Append(cmds, c), u)
<1> DEFINE n == Len(cmds)
<1>1. PICK e \in [0 .. n -> Token] :
          /\ e[0] = s /\ e[n] = t
          /\ \A i \in 1 .. n : Goes(k, e[i - 1], cmds[i], e[i])
  BY DEF Leads
<1> DEFINE f == [i \in 0 .. n + 1 |-> IF i = n + 1 THEN u ELSE e[i]]
<1>2. n \in Nat /\ Len(Append(cmds, c)) = n + 1 /\ Append(cmds, c)[n + 1] = c
      /\ \A i \in 1 .. n : Append(cmds, c)[i] = cmds[i]
  OBVIOUS
<1> HIDE DEF n
<1>3. f \in [0 .. n + 1 -> Token] /\ f[0] = s /\ f[n + 1] = u
  BY <1>1, <1>2
<1>4. ASSUME NEW i \in 1 .. n + 1
      PROVE  Goes(k, f[i - 1], Append(cmds, c)[i], f[i])
  <2>1. CASE i = n + 1
    <3>1. f[i - 1] = t /\ f[i] = u /\ Append(cmds, c)[i] = c
      BY <1>1, <1>2, <2>1
    <3>. QED  BY <3>1
  <2>2. CASE i # n + 1
    <3>1. i \in 1 .. n /\ f[i - 1] = e[i - 1] /\ f[i] = e[i] /\ Append(cmds, c)[i] = cmds[i]
      BY <1>1, <1>2, <2>2
    <3>. QED  BY <1>1, <3>1
  <2>. QED  BY <2>1, <2>2
<1> HIDE DEF f
<1>. QED  BY <1>2, <1>3, <1>4 DEF Leads

LEMMA LeadsOne ==
    ASSUME NEW k, NEW cmds \in Seq(Command), cmds # <<>>,
           NEW s \in Token, NEW t \in Token, Leads(k, s, cmds, t)
    PROVE  \E m \in Token : Goes(k, s, Head(cmds), m) /\ Leads(k, m, Tail(cmds), t)
<1> DEFINE n == Len(cmds)
<1>1. PICK e \in [0 .. n -> Token] :
          /\ e[0] = s /\ e[n] = t
          /\ \A i \in 1 .. n : Goes(k, e[i - 1], cmds[i], e[i])
  BY DEF Leads
<1>2. n \in Nat \ {0} /\ Head(cmds) = cmds[1] /\ Len(Tail(cmds)) = n - 1
      /\ \A i \in 1 .. n - 1 : Tail(cmds)[i] = cmds[i + 1]
  OBVIOUS
<1> HIDE DEF n
<1> DEFINE f == [i \in 0 .. n - 1 |-> e[i + 1]]
<1>3. f \in [0 .. n - 1 -> Token] /\ f[0] = e[1] /\ f[n - 1] = t
  BY <1>1, <1>2
<1>4. ASSUME NEW i \in 1 .. n - 1
      PROVE  Goes(k, f[i - 1], Tail(cmds)[i], f[i])
  <2>1. i + 1 \in 1 .. n /\ f[i - 1] = e[(i + 1) - 1] /\ f[i] = e[i + 1]
        /\ Tail(cmds)[i] = cmds[i + 1]
    BY <1>1, <1>2
  <2>. QED  BY <1>1, <2>1
<1>5. Goes(k, s, Head(cmds), e[1]) /\ e[1] \in Token
  <2>1. 1 \in 1 .. n /\ 1 - 1 = 0 /\ 1 \in 0 .. n
    BY <1>2
  <2>2. Goes(k, e[1 - 1], cmds[1], e[1])
    BY <1>1, <2>1
  <2>. QED  BY <1>1, <1>2, <2>1, <2>2
<1> HIDE DEF f
<1>6. Leads(k, e[1], Tail(cmds), t)
  BY <1>2, <1>3, <1>4 DEF Leads
<1>. QED  BY <1>5, <1>6

\* Commands after commands, up to five.
LEMMA LeadsMore ==
    ASSUME NEW k, NEW cmds \in Seq(Command), NEW s \in Token, NEW t \in Token,
           Leads(k, s, cmds, t)
    PROVE  /\ Leads(k, s, cmds \o <<>>, t)
           /\ \A a \in Command : \A t1 \in Token :
                 Goes(k, t, a, t1) => Leads(k, s, cmds \o <<a>>, t1)
           /\ \A a, b \in Command : \A t1, t2 \in Token :
                 Goes(k, t, a, t1) /\ Goes(k, t1, b, t2) => Leads(k, s, cmds \o <<a, b>>, t2)
           /\ \A a, b, c \in Command : \A t1, t2, t3 \in Token :
                 Goes(k, t, a, t1) /\ Goes(k, t1, b, t2) /\ Goes(k, t2, c, t3)
                 => Leads(k, s, cmds \o <<a, b, c>>, t3)
           /\ \A a, b, c, d \in Command : \A t1, t2, t3, t4 \in Token :
                 Goes(k, t, a, t1) /\ Goes(k, t1, b, t2) /\ Goes(k, t2, c, t3)
                   /\ Goes(k, t3, d, t4)
                 => Leads(k, s, cmds \o <<a, b, c, d>>, t4)
           /\ \A a, b, c, d, e \in Command : \A t1, t2, t3, t4, t5 \in Token :
                 Goes(k, t, a, t1) /\ Goes(k, t1, b, t2) /\ Goes(k, t2, c, t3)
                   /\ Goes(k, t3, d, t4) /\ Goes(k, t4, e, t5)
                 => Leads(k, s, cmds \o <<a, b, c, d, e>>, t5)
<1>1. cmds \o <<>> = cmds
  OBVIOUS
<1>2. \A a \in Command : cmds \o <<a>> = Append(cmds, a) /\ cmds \o <<a>> \in Seq(Command)
  OBVIOUS
<1>3. \A a, b \in Command : cmds \o <<a, b>> = Append(cmds \o <<a>>, b)
                            /\ cmds \o <<a, b>> \in Seq(Command)
  OBVIOUS
<1>4. \A a, b, c \in Command : cmds \o <<a, b, c>> = Append(cmds \o <<a, b>>, c)
                               /\ cmds \o <<a, b, c>> \in Seq(Command)
  OBVIOUS
<1>5. \A a, b, c, d \in Command : cmds \o <<a, b, c, d>> = Append(cmds \o <<a, b, c>>, d)
                                  /\ cmds \o <<a, b, c, d>> \in Seq(Command)
  OBVIOUS
<1>6. \A a, b, c, d, e \in Command :
          cmds \o <<a, b, c, d, e>> = Append(cmds \o <<a, b, c, d>>, e)
  OBVIOUS
<1>7. \A q \in Seq(Command), c \in Command, u \in Token, v \in Token :
          Leads(k, s, q, u) /\ Goes(k, u, c, v) => Leads(k, s, Append(q, c), v)
  BY LeadsOn, Zenon
<1>8. ASSUME NEW a \in Command, NEW t1 \in Token, Goes(k, t, a, t1)
      PROVE  Leads(k, s, cmds \o <<a>>, t1)
  BY <1>2, <1>7, <1>8, Zenon
<1>9. ASSUME NEW a \in Command, NEW t1 \in Token, Goes(k, t, a, t1),
             NEW b \in Command, NEW t2 \in Token, Goes(k, t1, b, t2)
      PROVE  Leads(k, s, cmds \o <<a, b>>, t2)
  <2>1. Leads(k, s, cmds \o <<a>>, t1) /\ cmds \o <<a>> \in Seq(Command)
    BY <1>2, <1>8, <1>9, Zenon
  <2>. QED  BY <1>3, <1>7, <1>9, <2>1, Zenon
<1>10. ASSUME NEW a \in Command, NEW t1 \in Token, Goes(k, t, a, t1),
              NEW b \in Command, NEW t2 \in Token, Goes(k, t1, b, t2),
              NEW c \in Command, NEW t3 \in Token, Goes(k, t2, c, t3)
       PROVE  Leads(k, s, cmds \o <<a, b, c>>, t3)
  <2>1. Leads(k, s, cmds \o <<a, b>>, t2) /\ cmds \o <<a, b>> \in Seq(Command)
    BY <1>3, <1>9, <1>10, Zenon
  <2>2. cmds \o <<a, b, c>> = Append(cmds \o <<a, b>>, c)
    BY <1>4
  <2>3. Leads(k, s, Append(cmds \o <<a, b>>, c), t3)
    BY <1>7, <1>10, <2>1
  <2>. QED  BY <2>2, <2>3, Zenon
<1>11. ASSUME NEW a \in Command, NEW t1 \in Token, Goes(k, t, a, t1),
              NEW b \in Command, NEW t2 \in Token, Goes(k, t1, b, t2),
              NEW c \in Command, NEW t3 \in Token, Goes(k, t2, c, t3),
              NEW d \in Command, NEW t4 \in Token, Goes(k, t3, d, t4)
       PROVE  Leads(k, s, cmds \o <<a, b, c, d>>, t4)
  <2>1. Leads(k, s, cmds \o <<a, b, c>>, t3) /\ cmds \o <<a, b, c>> \in Seq(Command)
    BY <1>4, <1>10, <1>11, Zenon
  <2>2. cmds \o <<a, b, c, d>> = Append(cmds \o <<a, b, c>>, d)
    BY <1>5
  <2>3. Leads(k, s, Append(cmds \o <<a, b, c>>, d), t4)
    BY <1>7, <1>11, <2>1
  <2>. QED  BY <2>2, <2>3, Zenon
<1>12. ASSUME NEW a \in Command, NEW t1 \in Token, Goes(k, t, a, t1),
              NEW b \in Command, NEW t2 \in Token, Goes(k, t1, b, t2),
              NEW c \in Command, NEW t3 \in Token, Goes(k, t2, c, t3),
              NEW d \in Command, NEW t4 \in Token, Goes(k, t3, d, t4),
              NEW e \in Command, NEW t5 \in Token, Goes(k, t4, e, t5)
       PROVE  Leads(k, s, cmds \o <<a, b, c, d, e>>, t5)
  <2>1. Leads(k, s, cmds \o <<a, b, c, d>>, t4) /\ cmds \o <<a, b, c, d>> \in Seq(Command)
    BY <1>5, <1>11, <1>12, Zenon
  <2>2. cmds \o <<a, b, c, d, e>> = Append(cmds \o <<a, b, c, d>>, e)
    BY <1>6
  <2>3. Leads(k, s, Append(cmds \o <<a, b, c, d>>, e), t5)
    BY <1>7, <1>12, <2>1
  <2>. QED  BY <2>2, <2>3, Zenon
<1>13. \A a \in Command : \A t1 \in Token :
          Goes(k, t, a, t1) => Leads(k, s, cmds \o <<a>>, t1)
  BY <1>8
<1>14. \A a, b \in Command : \A t1, t2 \in Token :
          Goes(k, t, a, t1) /\ Goes(k, t1, b, t2) => Leads(k, s, cmds \o <<a, b>>, t2)
  BY <1>9
<1>15. \A a, b, c \in Command : \A t1, t2, t3 \in Token :
          Goes(k, t, a, t1) /\ Goes(k, t1, b, t2) /\ Goes(k, t2, c, t3)
          => Leads(k, s, cmds \o <<a, b, c>>, t3)
  BY <1>10
<1>16. \A a, b, c, d \in Command : \A t1, t2, t3, t4 \in Token :
          Goes(k, t, a, t1) /\ Goes(k, t1, b, t2) /\ Goes(k, t2, c, t3)
            /\ Goes(k, t3, d, t4)
          => Leads(k, s, cmds \o <<a, b, c, d>>, t4)
  BY <1>11
<1>17. \A a, b, c, d, e \in Command : \A t1, t2, t3, t4, t5 \in Token :
          Goes(k, t, a, t1) /\ Goes(k, t1, b, t2) /\ Goes(k, t2, c, t3)
            /\ Goes(k, t3, d, t4) /\ Goes(k, t4, e, t5)
          => Leads(k, s, cmds \o <<a, b, c, d, e>>, t5)
  BY <1>12
<1>. QED
  BY <1>1, <1>13, <1>14, <1>15, <1>16, <1>17, Zenon

(***************************************************************************)
(* The inductive invariant.                                                *)
(***************************************************************************)

\* Where the master's steps are in order.
Loop ==
    /\ published => layersSet /\ NormalOperation
    /\ at # "menu" => layersSet
    /\ ~published /\ ~suppressed => active = "Fft"
    /\ at \in {"refresh", "dwell"} /\ ~suppressed => published /\ ~fading

\* What the master believes a GPU shows when all has arrived.
BelievedLayer == IF fading THEN Other[active] ELSE active
BelievedPreset == IF fading THEN pending ELSE preset

Followed(g) == published /\ ~suppressed /\ ~stopping /\ spent["loss"] = 0 /\ ~cut[g]
Believes(t) == t.of \in Following /\ t.layer = BelievedLayer /\ t.preset = BelievedPreset
Agrees(g) ==
    Followed(g) =>
        \E s, t \in Token : Matches(g, s) /\ Leads("shows", s, chan[g], t) /\ Believes(t)

Undisturbed(g) == ~suppressed /\ ~stopping /\ spent["failure"] = 0 /\ ~cut[g]
Expects(t) ==
    /\ t.layer = BelievedLayer
    /\ t.of \in {"rest", "ready"} \/ (t.of = "start" /\ ~published /\ ~fading)
Swaps(g) ==
    Undisturbed(g) =>
        /\ ~refused[g]
        /\ \E s, t \in Token : Fits(g, s) /\ Leads("accepts", s, chan[g], t) /\ Expects(t)

\* The steps that leave a GPU, the way to it and what is believed alone.
Stays(g) ==
    /\ UNCHANGED <<published, fading, active, preset, pending>>
    /\ chan'[g] = chan[g] /\ enabled'[g] = enabled[g] /\ opacity'[g] = opacity[g]
    /\ playing'[g] = playing[g] /\ fade'[g] = fade[g] /\ cut'[g] = cut[g]
    /\ refused'[g] = refused[g]

LEMMA Later ==
    ASSUME TypeInv, [Next]_vars
    PROVE  /\ suppressed => suppressed'
           /\ stopping => stopping' \/ suppressed'
           /\ spent'["loss"] = 0 => spent["loss"] = 0
           /\ spent'["failure"] = 0 => spent["failure"] = 0
<1>1. UNCHANGED spent \/ \E k \in DOMAIN Budget : Spend(k)
  <2>1. DOMAIN Budget = {"dwell", "next", "stop", "failure", "loss"}
    BY Constants
  <2>2. CASE UNCHANGED vars
    BY <2>2 DEF vars
  <2>3. CASE BringUp \/ \E g \in GPU : Begin(g) \/ Announce(g)
    BY <2>1, <2>3 DEF BringUp, MasterBegin, PublishEnable, PublishSweep, BootFinished,
                      Begin, Announce
  <2>4. CASE Work \/ Due("dwell") \/ PressNext \/ OnAnimationStop
    BY <2>1, <2>4 DEF Work, HandleMenu, StageNextFftVisual, PublishLayerStartupState,
                      CompleteFft, Due, PublishInitialFftVisual, Rotate, Refresh,
                      PressNext, OnAnimationStop, TryAll, TryEach
  <2>5. CASE \E ls \in {Layers} \cup {{l} : l \in Layers} : PublishStop(ls)
    BY <2>1, <2>5 DEF PublishStop
  <2>6. CASE \E g \in Observed :
                Lose(g) \/ Handle(g) \/ UpdateFade(g) \/ CompleteLayerFadeSwap(g)
    BY <2>1, <2>6 DEF Lose, Handle, UpdateFade, CompleteLayerFadeSwap, OnEnable,
                      SetLayerActive, SetLayerOpacity, PlayAnimation, StopAnimation,
                      StartLayerFadeSwap
  <2>. QED  BY <2>2, <2>3, <2>4, <2>5, <2>6 DEF Next
<1>2. (suppressed => suppressed') /\ (stopping => stopping' \/ suppressed')
  <2>1. CASE UNCHANGED vars
    BY <2>1 DEF vars, loop, belief
  <2>2. CASE BringUp \/ \E g \in GPU : Begin(g) \/ Announce(g)
    BY <2>2 DEF BringUp, MasterBegin, PublishEnable, PublishSweep, BootFinished,
                Begin, Announce, loop, belief
  <2>3. CASE Work \/ Due("dwell") \/ PressNext \/ OnAnimationStop
    <3>1. \A what : Due(what) => UNCHANGED <<stopping, suppressed>>
      BY DEF Due, belief
    <3>2. HandleMenu \/ PublishLayerStartupState \/ CompleteFft \/ PressNext
          => UNCHANGED <<stopping, suppressed>>
      BY DEF HandleMenu, PublishLayerStartupState, CompleteFft, PressNext, loop, belief
    <3>3. PublishInitialFftVisual \/ Rotate \/ Refresh => UNCHANGED <<stopping, suppressed>>
      BY DEF PublishInitialFftVisual, Rotate, Refresh, belief
    <3>4. OnAnimationStop => suppressed'
      BY DEF OnAnimationStop
    <3>. QED  BY <2>3, <3>1, <3>2, <3>3, <3>4 DEF Work
  <2>4. CASE \E ls \in {Layers} \cup {{l} : l \in Layers} : PublishStop(ls)
    BY <2>4 DEF PublishStop, belief
  <2>5. CASE \E g \in Observed :
                Lose(g) \/ Handle(g) \/ UpdateFade(g) \/ CompleteLayerFadeSwap(g)
    BY <2>5 DEF Lose, Handle, UpdateFade, CompleteLayerFadeSwap, OnEnable,
                SetLayerActive, SetLayerOpacity, PlayAnimation, StopAnimation,
                StartLayerFadeSwap, loop, belief
  <2>. QED  BY <2>1, <2>2, <2>3, <2>4, <2>5 DEF Next
<1>3. \A k \in DOMAIN Budget : spent[k] \in Nat
  BY DEF TypeInv, SpentType
<1>4. "loss" \in DOMAIN Budget /\ "failure" \in DOMAIN Budget
  BY Constants
<1>5. ASSUME NEW k \in DOMAIN Budget, Spend(k)
      PROVE  /\ spent'["loss"] = 0 => spent["loss"] = 0
             /\ spent'["failure"] = 0 => spent["failure"] = 0
  BY <1>3, <1>4, <1>5, Spent
<1>. QED  BY <1>1, <1>2, <1>5

\* The steps as one GPU has them.
LEMMA StepsOf ==
    ASSUME TypeInv, [Next]_vars, NEW g \in Observed
    PROVE  \/ Stays(g) \/ PublishEnable \/ stopping' \/ suppressed'
           \/ ~fading /\ HandleMenu
           \/ PublishLayerStartupState \/ CompleteFft \/ PublishInitialFftVisual
           \/ Rotate \/ Refresh
           \/ Lose(g) \/ Handle(g) \/ UpdateFade(g) \/ CompleteLayerFadeSwap(g)
<1>1. CASE UNCHANGED vars
  BY <1>1 DEF vars, belief, engine, Stays
<1>2. CASE BringUp \/ \E h \in GPU : Begin(h) \/ Announce(h)
  BY <1>2 DEF BringUp, MasterBegin, PublishSweep, BootFinished, Begin, Announce,
              belief, engine, Stays
<1>3. CASE Work \/ Due("dwell") \/ PressNext \/ OnAnimationStop
  BY <1>3 DEF Work, HandleMenu, StageNextFftVisual, Due, PressNext, OnAnimationStop,
              belief, engine, Stays
<1>4. CASE \E ls \in {Layers} \cup {{l} : l \in Layers} : PublishStop(ls)
  BY <1>4 DEF PublishStop
<1>5. ASSUME NEW h \in Observed, h # g,
             Lose(h) \/ Handle(h) \/ UpdateFade(h) \/ CompleteLayerFadeSwap(h)
      PROVE  Stays(g)
  <2>1. UNCHANGED <<published, fading, active, preset, pending>>
    BY <1>5 DEF Lose, Handle, UpdateFade, CompleteLayerFadeSwap, OnEnable,
                SetLayerActive, SetLayerOpacity, PlayAnimation, StopAnimation,
                StartLayerFadeSwap, belief
  <2>2. chan'[g] = chan[g]
    BY <1>5 DEF Lose, Handle, UpdateFade, CompleteLayerFadeSwap, OnEnable,
                SetLayerActive, SetLayerOpacity, PlayAnimation, StopAnimation,
                StartLayerFadeSwap, Take, TypeInv, ChanType
  <2>3. enabled'[g] = enabled[g] /\ opacity'[g] = opacity[g] /\ playing'[g] = playing[g]
    BY <1>5 DEF Lose, Handle, UpdateFade, CompleteLayerFadeSwap, OnEnable,
                SetLayerActive, SetLayerOpacity, PlayAnimation, StopAnimation,
                StartLayerFadeSwap, engine, TypeInv, EngineType
  <2>4. fade'[g] = fade[g] /\ cut'[g] = cut[g] /\ refused'[g] = refused[g]
    BY <1>5 DEF Lose, Handle, UpdateFade, CompleteLayerFadeSwap, OnEnable,
                SetLayerActive, SetLayerOpacity, PlayAnimation, StopAnimation,
                StartLayerFadeSwap, CancelFade, engine, TypeInv, EngineType
  <2>. QED  BY <2>1, <2>2, <2>3, <2>4 DEF Stays
<1>. QED
  BY <1>1, <1>2, <1>3, <1>4, <1>5 DEF Next

(***************************************************************************)
(* What a GPU does with a command.                                         *)
(***************************************************************************)
\* How a command changes an engine.
Handled(g) ==
    LET c == Head(chan[g]) IN
    /\ chan[g] # <<>> /\ c \in Command /\ chan'[g] = Tail(chan[g])
    /\ UNCHANGED <<belief, loop, spent, layersSet, bringup>>
    /\ c.kind # "swap" => refused'[g] = refused[g]
    /\ c.kind \in {"active", "opacity"} =>
          fade'[g] = NoFade /\ (cut'[g] <=> cut[g] \/ fade[g] # NoFade)
    /\ c.kind = "active" =>
          /\ enabled'[g] = [enabled[g] EXCEPT ![c.layer] = c.on]
          /\ opacity'[g] = opacity[g] /\ playing'[g] = playing[g]
    /\ c.kind = "opacity" =>
          /\ opacity'[g] = [opacity[g] EXCEPT ![c.layer] = c.value]
          /\ enabled'[g] = enabled[g] /\ playing'[g] = playing[g]
    /\ c.kind \notin {"active", "opacity"} => cut'[g] = cut[g]
    /\ c.kind \in {"play", "enable", "stop"} =>
          /\ enabled'[g] = enabled[g] /\ opacity'[g] = opacity[g] /\ fade'[g] = fade[g]
    /\ c.kind = "play" => playing'[g] = [playing[g] EXCEPT ![c.layer] = c.preset]
    /\ c.kind = "swap" =>
          /\ playing'[g] = playing[g]
          /\ \A l \in Layers :
                /\ fade[g] = NoFade
                /\ opacity[g][l] = "full" /\ opacity[g][Other[l]] = "zero"
                => /\ refused'[g] = refused[g]
                   /\ fade'[g] = Other[l]

LEMMA Handling ==
    ASSUME TypeInv, NEW g \in Observed, Handle(g)
    PROVE  Handled(g)
<1> DEFINE c == Head(chan[g])
<1>1. chan[g] # <<>> /\ c \in Command /\ chan'[g] = Tail(chan[g])
  BY Sequences DEF Handle, OnEnable, SetLayerActive, SetLayerOpacity, PlayAnimation,
      StopAnimation, StartLayerFadeSwap, Got, Take, TypeInv, ChanType
<1>2. UNCHANGED <<belief, loop, spent, layersSet, bringup>>
  BY DEF Handle, OnEnable, SetLayerActive, SetLayerOpacity, PlayAnimation,
      StopAnimation, StartLayerFadeSwap, startup
<1> USE DEF TypeInv, EngineType, Got
<1>3. CASE OnEnable(g)
  BY <1>1, <1>2, <1>3 DEF Handled, OnEnable, engine
<1>4. CASE SetLayerActive(g)
  BY <1>1, <1>2, <1>4 DEF Handled, SetLayerActive, CancelFade
<1>5. CASE SetLayerOpacity(g)
  BY <1>1, <1>2, <1>5 DEF Handled, SetLayerOpacity, CancelFade
<1>6. CASE PlayAnimation(g)
  BY <1>1, <1>2, <1>6 DEF Handled, PlayAnimation
<1>7. CASE StopAnimation(g)
  BY <1>1, <1>2, <1>7 DEF Handled, StopAnimation
<1>8. CASE StartLayerFadeSwap(g)
  <2>1. /\ c.kind = "swap" /\ playing'[g] = playing[g] /\ cut'[g] = cut[g]
    BY <1>8 DEF StartLayerFadeSwap
  <2>2. ASSUME NEW l \in Layers, fade[g] = NoFade,
               opacity[g][l] = "full", opacity[g][Other[l]] = "zero"
        PROVE  refused'[g] = refused[g] /\ fade'[g] = Other[l]
    <3>1. SwapSources(g) = {l}
      BY <2>2, LayersAre DEF SwapSources
    <3>. QED  BY <1>8, <2>2, <3>1 DEF StartLayerFadeSwap
  <2>. QED  BY <1>1, <1>2, <2>1, <2>2 DEF Handled
<1>. QED  BY <1>3, <1>4, <1>5, <1>6, <1>7, <1>8 DEF Handle

LEMMA ShowsOn ==
    ASSUME TypeInv, NEW g \in Observed, Handle(g), ~cut'[g],
           NEW s \in Token, NEW t \in Token, Matches(g, s), Shows(s, Head(chan[g]), t)
    PROVE  Matches(g, t)'
<1> DEFINE c == Head(chan[g])
           l == s.layer
<1>0. Handled(g)
  BY Handling
<1>1. /\ c \in Command /\ l \in Layers /\ Other[l] \in Layers /\ Other[l] # l
      /\ Other[Other[l]] = l /\ s.preset \in Preset /\ s.next \in Preset
      /\ enabled[g] \in [Layers -> BOOLEAN] /\ opacity[g] \in [Layers -> Opacities]
      /\ playing[g] \in [Layers -> Preset \cup {None}]
  BY <1>0, LayersAre DEF Handled, TypeInv, EngineType, Token
<1>2. CASE s.of = "any" /\ t = s
  BY <1>2 DEF Matches, Following
<1>3. CASE s.of = "any" /\ c = Active("Fft", TRUE) /\ t = Tok("enabled", "Fft", 0, 0)
  <2>1. t.of = "enabled" /\ t.layer = "Fft"
    BY <1>3 DEF Tok
  <2>2. fade'[g] = NoFade /\ enabled'[g]["Fft"]
    BY <1>1, <1>3, <1>0, LayersAre DEF Handled, Active
  <2>. QED  BY <2>1, <2>2 DEF Matches, Following
<1>4. CASE s.of = "enabled" /\ c = SetOpacity(l, "full") /\ t = [s EXCEPT !.of = "full"]
  <2>1. t.of = "full" /\ t.layer = l
    BY <1>4 DEF Token
  <2>2. fade'[g] = NoFade /\ enabled'[g][l] /\ opacity'[g][l] = "full"
    BY <1>1, <1>4, <1>0 DEF Handled, SetOpacity, Matches
  <2>. QED  BY <2>1, <2>2 DEF Matches, Following
<1>5. CASE s.of = "full" /\ c = Active(Other[l], FALSE) /\ t = s
  <2>1. fade'[g] = NoFade /\ enabled'[g][l] /\ opacity'[g][l] = "full"
    BY <1>1, <1>5, <1>0 DEF Handled, Active, Matches
  <2>. QED  BY <1>5, <2>1 DEF Matches, Following
<1>6. CASE s.of = "full" /\ c = SetOpacity(Other[l], "zero") /\ t = [s EXCEPT !.of = "dark"]
  <2>1. t.of = "dark" /\ t.layer = l
    BY <1>6 DEF Token
  <2>2. /\ fade'[g] = NoFade /\ enabled'[g][l]
        /\ opacity'[g][l] = "full" /\ opacity'[g][Other[l]] = "zero"
    BY <1>1, <1>6, <1>0 DEF Handled, SetOpacity, Matches
  <2>. QED  BY <2>1, <2>2 DEF Matches, Following
<1>7. CASE s.of = "dark" /\ c = Play(s.preset, l) /\ t = [s EXCEPT !.of = "ready"]
  <2>1. t.of = "ready" /\ t.layer = l /\ t.preset = s.preset
    BY <1>7 DEF Token
  <2>2. /\ fade'[g] = NoFade /\ enabled'[g][l] /\ playing'[g][l] = s.preset
        /\ opacity'[g][l] = "full" /\ opacity'[g][Other[l]] = "zero"
    BY <1>1, <1>7, <1>0 DEF Handled, Play, Matches
  <2>. QED  BY <2>1, <2>2 DEF Matches, Following
<1>8. ASSUME s.of \in Following,
             c = Active(Other[l], TRUE) \/ c = SetOpacity(Other[l], "zero"),
             t = [s EXCEPT !.of = "ready"]
      PROVE  Matches(g, t)'
  <2>1. t.of = "ready" /\ t.layer = l /\ t.preset = s.preset
    BY <1>8 DEF Token
  <2>2. c.kind \in {"active", "opacity"} /\ fade[g] = NoFade /\ fade'[g] = NoFade
    BY <1>8, <1>0 DEF Handled, Active, SetOpacity, TypeInv, EngineType
  <2>3. /\ enabled[g][l] /\ opacity[g][l] = "full" /\ opacity[g][Other[l]] = "zero"
        /\ playing[g][l] = s.preset
    BY <1>1, <1>8, <2>2 DEF Matches, Following, NoFade, Layers
  <2>4. /\ enabled'[g][l] /\ opacity'[g][l] = "full" /\ opacity'[g][Other[l]] = "zero"
        /\ playing'[g][l] = s.preset
    BY <1>1, <1>8, <2>3, <1>0 DEF Handled, Active, SetOpacity
  <2>. QED  BY <2>1, <2>2, <2>4 DEF Matches, Following
<1>9. ASSUME s.of \in {"ready", "loaded"}, c = Play(t.next, Other[l]),
             t = [s EXCEPT !.of = "loaded", !.next = t.next]
      PROVE  Matches(g, t)'
  <2>1. t.of = "loaded" /\ t.layer = l /\ t.preset = s.preset
    BY <1>9 DEF Token
  <2>2. /\ fade'[g] = NoFade /\ enabled'[g][l] /\ playing'[g][l] = s.preset
        /\ opacity'[g][l] = "full" /\ opacity'[g][Other[l]] = "zero"
        /\ playing'[g][Other[l]] = t.next
    BY <1>1, <1>9, <1>0 DEF Handled, Play, Matches, Following
  <2>. QED  BY <2>1, <2>2 DEF Matches, Following
<1>10. CASE s.of \in Following /\ c = Play(s.preset, l) /\ t = s
  <2>1. /\ fade'[g] = fade[g] /\ enabled'[g] = enabled[g] /\ opacity'[g] = opacity[g]
        /\ playing'[g][l] = s.preset /\ playing'[g][Other[l]] = playing[g][Other[l]]
    BY <1>1, <1>10, <1>0 DEF Handled, Play
  <2>. QED  BY <1>10, <2>1 DEF Matches, Following
<1>11. CASE s.of = "loaded" /\ c = Swap(l, Other[l]) /\ t = Tok("rest", Other[l], s.next, s.next)
  <2>1. t.of = "rest" /\ t.layer = Other[l] /\ t.preset = s.next
    BY <1>11 DEF Tok
  <2>2. fade'[g] = Other[l] /\ playing'[g][Other[l]] = s.next
    BY <1>1, <1>11, <1>0 DEF Handled, Swap, Matches, Following
  <2>. QED  BY <2>1, <2>2 DEF Matches, Following
<1>. QED
  BY <1>2, <1>3, <1>4, <1>5, <1>6, <1>7, <1>8, <1>9, <1>10, <1>11 DEF Shows, Following

LEMMA FitsOn ==
    ASSUME TypeInv, NEW g \in Observed, Handle(g), ~cut'[g],
           NEW s \in Token, NEW t \in Token, Fits(g, s), Accepts(s, Head(chan[g]), t)
    PROVE  Fits(g, t)' /\ refused'[g] = refused[g]
<1> DEFINE c == Head(chan[g])
           l == s.layer
<1>0. Handled(g)
  BY Handling
<1>1. /\ c \in Command /\ l \in Layers /\ Other[l] \in Layers /\ Other[l] # l
      /\ Other[Other[l]] = l
      /\ enabled[g] \in [Layers -> BOOLEAN] /\ opacity[g] \in [Layers -> Opacities]
  BY <1>0, LayersAre DEF Handled, TypeInv, EngineType, Token
<1>2. c.kind \in {"active", "opacity"} => fade[g] = NoFade /\ fade'[g] = NoFade
  BY <1>0 DEF Handled, TypeInv, EngineType
<1>3. CASE c.kind = "active" /\ t = [s EXCEPT !.of = IF @ = "rest" THEN "ready" ELSE @]
  <2>1. t.layer = l /\ t.of = IF s.of = "rest" THEN "ready" ELSE s.of
    BY <1>3 DEF Token
  <2>2. opacity'[g] = opacity[g] /\ refused'[g] = refused[g]
    BY <1>3, <1>0 DEF Handled
  <2>. QED  BY <1>1, <1>2, <1>3, <2>1, <2>2 DEF Fits, NoFade, Layers
<1>4. CASE c = SetOpacity("Fft", "full") /\ t = [s EXCEPT !.of = "start", !.layer = "Fft"]
  <2>1. t.layer = "Fft" /\ t.of = "start"
    BY <1>4 DEF Token
  <2>2. opacity'[g]["Fft"] = "full" /\ refused'[g] = refused[g] /\ fade'[g] = NoFade
    BY <1>1, <1>4, <1>0, LayersAre DEF Handled, SetOpacity
  <2>. QED  BY <2>1, <2>2 DEF Fits
<1>5. CASE c = SetOpacity(Other[l], "zero") /\ t = [s EXCEPT !.of = "ready"]
  <2>1. t.layer = l /\ t.of = "ready"
    BY <1>5 DEF Token
  <2>2. fade[g] = NoFade /\ fade'[g] = NoFade /\ refused'[g] = refused[g]
    BY <1>2, <1>5, <1>0 DEF Handled, SetOpacity
  <2>3. opacity[g][l] = "full"
    BY <1>1, <2>2 DEF Fits, NoFade, Layers
  <2>4. opacity'[g][l] = "full" /\ opacity'[g][Other[l]] = "zero"
    BY <1>1, <1>5, <2>3, <1>0 DEF Handled, SetOpacity
  <2>. QED  BY <2>1, <2>2, <2>4 DEF Fits
<1>6. CASE c.kind \in {"play", "enable", "stop"} /\ t = s
  <2>1. opacity'[g] = opacity[g] /\ fade'[g] = fade[g] /\ refused'[g] = refused[g]
    BY <1>6, <1>0 DEF Handled
  <2>. QED  BY <1>6, <2>1 DEF Fits
<1>7. CASE s.of = "ready" /\ c.kind = "swap" /\ t = [s EXCEPT !.of = "rest", !.layer = Other[@]]
  <2>1. t.layer = Other[l] /\ t.of = "rest"
    BY <1>7 DEF Token
  <2>2. fade'[g] = Other[l] /\ refused'[g] = refused[g]
    BY <1>1, <1>7, <1>0 DEF Handled, Fits
  <2>. QED  BY <2>1, <2>2 DEF Fits
<1>. QED  BY <1>3, <1>4, <1>5, <1>6, <1>7 DEF Accepts

\* A fade under way, and its end, lead where the fade leads.
LEMMA FadesOn ==
    ASSUME TypeInv, NEW g \in Observed, UpdateFade(g) \/ CompleteLayerFadeSwap(g)
    PROVE  /\ \A s \in Token : (Matches(g, s) => Matches(g, s)') /\ (Fits(g, s) => Fits(g, s)')
           /\ chan'[g] = chan[g] /\ cut'[g] = cut[g] /\ refused'[g] = refused[g]
           /\ UNCHANGED <<published, fading, active, preset, pending>>
<1>1. fade[g] # NoFade /\ fade[g] \in Layers
  BY DEF TypeInv, EngineType, UpdateFade, CompleteLayerFadeSwap
<1>2. /\ chan'[g] = chan[g] /\ cut'[g] = cut[g] /\ refused'[g] = refused[g]
      /\ UNCHANGED <<published, fading, active, preset, pending>>
  BY DEF UpdateFade, CompleteLayerFadeSwap, belief
<1>3. ASSUME NEW s \in Token
      PROVE  (Matches(g, s) => Matches(g, s)') /\ (Fits(g, s) => Fits(g, s)')
  <2> DEFINE l == s.layer
  <2>1. l \in Layers /\ Other[l] \in Layers /\ Other[l] # l /\ Other[Other[l]] = l
    BY LayersAre DEF Token
  <2>2. CASE UpdateFade(g)
    <3>1. fade'[g] = fade[g] /\ playing'[g] = playing[g]
      BY <2>2 DEF UpdateFade
    <3>. QED  BY <1>1, <2>1, <3>1 DEF Matches, Fits, Following
  <2>3. CASE CompleteLayerFadeSwap(g) /\ s.of = "rest" /\ fade[g] = l
    <3>1. /\ fade'[g] = NoFade /\ playing'[g][l] = playing[g][l] /\ enabled'[g][l]
          /\ opacity'[g][l] = "full" /\ opacity'[g][Other[l]] = "zero"
      BY <1>1, <2>1, <2>3 DEF CompleteLayerFadeSwap, TypeInv, EngineType
    <3>. QED  BY <2>3, <3>1 DEF Matches, Fits, Following
  <2>4. CASE CompleteLayerFadeSwap(g) /\ ~(s.of = "rest" /\ fade[g] = l)
    BY <1>1, <2>4 DEF Matches, Fits, Following
  <2>. QED  BY <2>2, <2>3, <2>4
<1>. QED  BY <1>2, <1>3

(***************************************************************************)
(* What the master publishes.                                              *)
(***************************************************************************)
LEMMA TokenType ==
    /\ \A t \in Token : /\ t.layer \in Layers /\ t.preset \in Preset /\ t.next \in Preset
                        /\ [t EXCEPT !.of = "start"] \in Token
                        /\ [t EXCEPT !.of = "start", !.layer = "Fft"] \in Token
                        /\ [t EXCEPT !.of = "ready"] \in Token
                        /\ [t EXCEPT !.of = "full"] \in Token
                        /\ [t EXCEPT !.of = "dark"] \in Token
                        /\ \A p \in Preset : [t EXCEPT !.of = "loaded", !.next = p] \in Token
                        /\ \A l \in Layers : [t EXCEPT !.of = "rest", !.layer = l] \in Token
    /\ \A l \in Layers, p \in Preset :
          /\ Tok("rest", l, p, p) \in Token /\ Tok("any", l, p, p) \in Token
          /\ Tok("enabled", l, p, p) \in Token /\ Tok("start", l, p, p) \in Token
BY DEF Token, Tok, Following, Layers

\* The commands of a stage, one by one.
StageOf(h, p) == <<Active(h, TRUE), SetOpacity(h, "zero"), Play(p, h), Swap(Other[h], h)>>

LEMMA StageParts ==
    ASSUME NEW S, NEW a \in S, NEW b \in S, NEW c \in S, NEW d \in S,
           NEW i \in DOMAIN <<a, b, c, d>>
    PROVE  SubSeq(<<a, b, c, d>>, 1, i - 1) \in {<<>>, <<a>>, <<a, b>>, <<a, b, c>>}
<1> DEFINE r == SubSeq(<<a, b, c, d>>, 1, i - 1)
<1>1. i \in {1, 2, 3, 4}
  OBVIOUS
<1>2. /\ <<a>> \in Seq(S) /\ <<a, b>> \in Seq(S) /\ <<a, b, c>> \in Seq(S)
      /\ <<a, b, c, d>> \in Seq(S) /\ Len(<<a, b, c, d>>) = 4
  OBVIOUS
<1>3. r \in Seq(S) /\ Len(r) = i - 1 /\ \A k \in 1 .. i - 1 : r[k] = <<a, b, c, d>>[k]
  <2>1. \A k \in 1 .. i - 1 : <<a, b, c, d>>[k] \in S
    BY <1>1, <1>2
  <2>. QED  BY <1>1, <2>1, SubSeqProperties
<1> HIDE DEF r
<1>4. CASE i = 1
  BY <1>3, <1>4
<1>5. CASE i = 2
  <2>1. Len(r) = Len(<<a>>) /\ \A k \in 1 .. Len(r) : r[k] = <<a>>[k]
    BY <1>3, <1>5
  <2>2. r = <<a>>
    BY <1>2, <1>3, <2>1, SeqEqual
  <2>. QED  BY <2>2 DEF r
<1>6. CASE i = 3
  <2>1. Len(r) = Len(<<a, b>>) /\ \A k \in 1 .. Len(r) : r[k] = <<a, b>>[k]
    BY <1>3, <1>6
  <2>2. r = <<a, b>>
    BY <1>2, <1>3, <2>1, SeqEqual
  <2>. QED  BY <2>2 DEF r
<1>7. CASE i = 4
  <2>1. Len(r) = Len(<<a, b, c>>) /\ \A k \in 1 .. Len(r) : r[k] = <<a, b, c>>[k]
    BY <1>3, <1>7
  <2>2. r = <<a, b, c>>
    BY <1>2, <1>3, <2>1, SeqEqual
  <2>. QED  BY <2>2 DEF r
<1>. QED  BY <1>1, <1>4, <1>5, <1>6, <1>7 DEF r

\* A stage, and as much of it as was published, from what was believed.
LEMMA StageShows ==
    ASSUME NEW q \in Seq(Command), NEW s \in Token, NEW t \in Token,
           Leads("shows", s, q, t), t.of \in Following,
           NEW l \in Layers, t.layer = l, NEW p \in Preset
    PROVE  /\ \E u \in Token : /\ Leads("shows", s, q \o StageOf(Other[l], p), u)
                               /\ u.of \in Following /\ u.layer = Other[l] /\ u.preset = p
           /\ \A i \in DOMAIN StageOf(Other[l], p) :
                 \E u \in Token : /\ Leads("shows", s, q \o SubSeq(StageOf(Other[l], p), 1, i - 1), u)
                                  /\ u.of \in Following /\ u.layer = l /\ u.preset = t.preset
<1> DEFINE h == Other[l]
           a == Active(h, TRUE)
           b == SetOpacity(h, "zero")
           c == Play(p, h)
           d == Swap(l, h)
           t1 == [t EXCEPT !.of = "ready"]
           t3 == [t1 EXCEPT !.of = "loaded", !.next = p]
           t4 == Tok("rest", h, p, p)
<1>1. a \in Command /\ b \in Command /\ c \in Command /\ d \in Command /\ h \in Layers
      /\ Other[h] = l
  BY Commands, LayersAre
<1>2. t1 \in Token /\ t3 \in Token /\ t4 \in Token
  BY <1>1, TokenType
<1>3. /\ t1.of = "ready" /\ t1.layer = l /\ t1.preset = t.preset
      /\ t3.of = "loaded" /\ t3.layer = l /\ t3.preset = t.preset /\ t3.next = p
      /\ t4.of = "rest" /\ t4.layer = h /\ t4.preset = p
  BY DEF Token, Tok
<1>4. Shows(t, a, t1)
  BY DEF Shows
<1>5. Shows(t1, b, t1)
  <2>1. t1 = [t1 EXCEPT !.of = "ready"]
    BY DEF Token
  <2>. QED  BY <1>3, <2>1 DEF Shows, Following
<1>6. Shows(t1, c, t3)
  BY <1>3 DEF Shows, Following
<1>7. Shows(t3, d, t4)
  BY <1>3 DEF Shows, Following
<1>8. Goes("shows", t, a, t1) /\ Goes("shows", t1, b, t1) /\ Goes("shows", t1, c, t3)
      /\ Goes("shows", t3, d, t4)
  BY <1>4, <1>5, <1>6, <1>7 DEF Goes
<1> HIDE DEF a, b, c, d, t1, t3, t4
<1>9. /\ Leads("shows", s, q \o <<>>, t)
      /\ Leads("shows", s, q \o <<a>>, t1)
      /\ Leads("shows", s, q \o <<a, b>>, t1)
      /\ Leads("shows", s, q \o <<a, b, c>>, t3)
      /\ Leads("shows", s, q \o <<a, b, c, d>>, t4)
  BY <1>1, <1>2, <1>8, LeadsMore
<1>10. StageOf(h, p) = <<a, b, c, d>>
  BY <1>1 DEF StageOf, a, b, c, d
<1>11. ASSUME NEW i \in DOMAIN <<a, b, c, d>>
       PROVE  \E u \in Token : /\ Leads("shows", s, q \o SubSeq(<<a, b, c, d>>, 1, i - 1), u)
                               /\ u.of \in Following /\ u.layer = l /\ u.preset = t.preset
  <2>1. SubSeq(<<a, b, c, d>>, 1, i - 1) \in {<<>>, <<a>>, <<a, b>>, <<a, b, c>>}
    BY <1>1, <1>11, StageParts
  <2>2. t1.of \in Following /\ t3.of \in Following
    BY <1>3 DEF Following
  <2>. QED  BY <1>2, <1>3, <1>9, <2>1, <2>2
<1>12. t4.of \in Following
  BY <1>3 DEF Following
<1>. QED  BY <1>2, <1>3, <1>9, <1>10, <1>11, <1>12

LEMMA StageAccepted ==
    ASSUME NEW q \in Seq(Command), NEW s \in Token, NEW t \in Token,
           Leads("accepts", s, q, t), t.of \in {"start", "rest", "ready"},
           NEW l \in Layers, t.layer = l, NEW p \in Preset
    PROVE  \E u \in Token : /\ Leads("accepts", s, q \o StageOf(Other[l], p), u)
                            /\ u.of = "rest" /\ u.layer = Other[l]
<1> DEFINE h == Other[l]
           a == Active(h, TRUE)
           b == SetOpacity(h, "zero")
           c == Play(p, h)
           d == Swap(l, h)
           t1 == [t EXCEPT !.of = IF @ = "rest" THEN "ready" ELSE @]
           t2 == [t1 EXCEPT !.of = "ready"]
           t4 == [t2 EXCEPT !.of = "rest", !.layer = Other[@]]
<1>1. a \in Command /\ b \in Command /\ c \in Command /\ d \in Command /\ h \in Layers
      /\ Other[h] = l
  BY Commands, LayersAre
<1>2. t1 \in Token /\ t2 \in Token /\ t4 \in Token
  BY <1>1 DEF Token, Following
<1>3. /\ t1.of \in {"start", "ready"} /\ t1.layer = l
      /\ t2.of = "ready" /\ t2.layer = l
      /\ t4.of = "rest" /\ t4.layer = h
  BY DEF Token
<1>4. a.kind = "active" /\ c.kind = "play" /\ d.kind = "swap"
  BY DEF Active, Play, Swap
<1>5. Goes("accepts", t, a, t1) /\ Goes("accepts", t1, b, t2) /\ Goes("accepts", t2, c, t2)
      /\ Goes("accepts", t2, d, t4)
  BY <1>3, <1>4 DEF Goes, Accepts
<1> HIDE DEF a, b, c, d, t1, t2, t4
<1>6. Leads("accepts", s, q \o <<a, b, c, d>>, t4)
  BY <1>1, <1>2, <1>5, LeadsMore
<1>7. StageOf(h, p) = <<a, b, c, d>>
  BY <1>1 DEF StageOf, a, b, c, d
<1>. QED  BY <1>2, <1>3, <1>6, <1>7

\* The initial visual, from anywhere.
InitialVisual ==
    <<Active("Fft", TRUE), SetOpacity("Fft", "full"), Active("FftAlt", FALSE),
      SetOpacity("FftAlt", "zero"), Play(0, "Fft")>>

LEMMA InitialShows ==
    ASSUME NEW q \in Seq(Command)
    PROVE  \E s, u \in Token : /\ Leads("shows", s, q \o InitialVisual, u) /\ s.of = "any"
                               /\ u.of = "ready" /\ u.layer = "Fft" /\ u.preset = 0
<1> DEFINE a == Active("Fft", TRUE)
           b == SetOpacity("Fft", "full")
           c == Active("FftAlt", FALSE)
           d == SetOpacity("FftAlt", "zero")
           e == Play(0, "Fft")
           s == Tok("any", "Fft", 0, 0)
           t1 == Tok("enabled", "Fft", 0, 0)
           t2 == [t1 EXCEPT !.of = "full"]
           t4 == [t2 EXCEPT !.of = "dark"]
           t5 == [t4 EXCEPT !.of = "ready"]
<1>1. /\ a \in Command /\ b \in Command /\ c \in Command /\ d \in Command /\ e \in Command
      /\ "Fft" \in Layers /\ 0 \in Preset /\ Other["Fft"] = "FftAlt"
  BY Commands, LayersAre, Constants DEF Other
<1>2. s \in Token /\ t1 \in Token /\ t2 \in Token /\ t4 \in Token /\ t5 \in Token
  BY <1>1, TokenType
<1>3. /\ s.of = "any" /\ t1.of = "enabled" /\ t1.layer = "Fft"
      /\ t2.of = "full" /\ t2.layer = "Fft"
      /\ t4.of = "dark" /\ t4.layer = "Fft" /\ t4.preset = 0
      /\ t5.of = "ready" /\ t5.layer = "Fft" /\ t5.preset = 0
  BY DEF Tok
<1>4. Leads("shows", s, q, s)
  <2> DEFINE f == [i \in 0 .. Len(q) |-> s]
  <2>1. f \in [0 .. Len(q) -> Token] /\ f[0] = s /\ f[Len(q)] = s
    BY <1>2
  <2>2. ASSUME NEW i \in 1 .. Len(q) PROVE Goes("shows", f[i - 1], q[i], f[i])
    <3>1. f[i - 1] = s /\ f[i] = s
      OBVIOUS
    <3>2. Goes("shows", s, q[i], s)
      BY <1>3 DEF Goes, Shows
    <3>. QED  BY <3>1, <3>2
  <2>. QED  BY <2>1, <2>2 DEF Leads
<1>5. /\ Goes("shows", s, a, t1) /\ Goes("shows", t1, b, t2) /\ Goes("shows", t2, c, t2)
      /\ Goes("shows", t2, d, t4) /\ Goes("shows", t4, e, t5)
  <2>1. Shows(s, a, t1)
    BY <1>3 DEF Shows
  <2>2. Shows(t1, b, t2)
    BY <1>3 DEF Shows
  <2>3. Shows(t2, c, t2)
    BY <1>1, <1>3 DEF Shows
  <2>4. Shows(t2, d, t4)
    BY <1>1, <1>3 DEF Shows
  <2>5. Shows(t4, e, t5)
    BY <1>3 DEF Shows
  <2>. QED  BY <2>1, <2>2, <2>3, <2>4, <2>5 DEF Goes
<1>6. InitialVisual = <<a, b, c, d, e>>
  BY DEF InitialVisual
<1> HIDE DEF a, b, c, d, e, s, t1, t2, t4, t5
<1>7. Leads("shows", s, q \o <<a, b, c, d, e>>, t5)
  BY <1>1, <1>2, <1>4, <1>5, LeadsMore
<1>. QED  BY <1>2, <1>3, <1>6, <1>7

LEMMA InitialAccepted ==
    ASSUME NEW q \in Seq(Command), NEW s \in Token, NEW t \in Token,
           Leads("accepts", s, q, t), t.of \in {"start", "rest", "ready"}
    PROVE  \E u \in Token : /\ Leads("accepts", s, q \o InitialVisual, u)
                            /\ u.of = "ready" /\ u.layer = "Fft"
<1> DEFINE a == Active("Fft", TRUE)
           b == SetOpacity("Fft", "full")
           c == Active("FftAlt", FALSE)
           d == SetOpacity("FftAlt", "zero")
           e == Play(0, "Fft")
           t1 == [t EXCEPT !.of = IF @ = "rest" THEN "ready" ELSE @]
           t2 == [t1 EXCEPT !.of = "start", !.layer = "Fft"]
           t4 == [t2 EXCEPT !.of = "ready"]
<1>1. /\ a \in Command /\ b \in Command /\ c \in Command /\ d \in Command /\ e \in Command
      /\ "Fft" \in Layers /\ Other["Fft"] = "FftAlt"
  BY Commands, LayersAre, Constants DEF Other
<1>2. t1 \in Token /\ t2 \in Token /\ t4 \in Token
  BY <1>1 DEF Token, Following
<1>3. /\ t1.of \in {"start", "ready"}
      /\ t2.of = "start" /\ t2.layer = "Fft"
      /\ t4.of = "ready" /\ t4.layer = "Fft"
  BY DEF Token
<1>4. a.kind = "active" /\ c.kind = "active" /\ e.kind = "play"
  BY DEF Active, Play
<1>5. Goes("accepts", t, a, t1) /\ Goes("accepts", t1, b, t2)
  BY <1>3, <1>4 DEF Goes, Accepts
<1>6. Goes("accepts", t2, c, t2)
  <2>1. t2 = [t2 EXCEPT !.of = IF @ = "rest" THEN "ready" ELSE @]
    BY <1>2, <1>3 DEF Token
  <2>. QED  BY <1>3, <1>4, <2>1 DEF Goes, Accepts
<1>7. Goes("accepts", t2, d, t4) /\ Goes("accepts", t4, e, t4)
  BY <1>1, <1>3, <1>4 DEF Goes, Accepts
<1>8. InitialVisual = <<a, b, c, d, e>>
  BY DEF InitialVisual
<1> HIDE DEF a, b, c, d, e, t1, t2, t4
<1>9. Leads("accepts", s, q \o <<a, b, c, d, e>>, t4)
  BY <1>1, <1>2, <1>5, <1>6, <1>7, LeadsMore
<1>. QED  BY <1>2, <1>3, <1>8, <1>9

(***************************************************************************)
(* Every step keeps the invariant.                                         *)
(***************************************************************************)
LEMMA LoopInit == Init => Loop
BY DEF Init, Loop

LEMMA LoopStep == TypeInv /\ StartInv /\ Loop /\ [Next]_vars => Loop'
<1>. SUFFICES ASSUME TypeInv, StartInv, Loop, [Next]_vars PROVE Loop'
  OBVIOUS
<1>1. CASE UNCHANGED vars
  BY <1>1 DEF vars, startup, loop, belief, Loop, NormalOperation
<1>2. CASE BringUp \/ \E g \in GPU : Begin(g) \/ Announce(g)
  <2>1. UNCHANGED <<layersSet, loop, belief>> /\ (NormalOperation => NormalOperation')
    BY <1>2 DEF BringUp, MasterBegin, PublishEnable, PublishSweep, BootFinished, Begin,
                Announce, NormalOperation
  <2>. QED  BY <2>1 DEF Loop, loop, belief
<1>3. CASE \E ls \in {Layers} \cup {{l} : l \in Layers} : PublishStop(ls)
  BY <1>3 DEF PublishStop, startup, belief, Loop, NormalOperation
<1>4. CASE HandleMenu \/ PressNext \/ OnAnimationStop
  BY <1>4 DEF HandleMenu, StageNextFftVisual, PressNext, OnAnimationStop, startup, belief,
              Loop, NormalOperation
<1>5. CASE PublishLayerStartupState
  BY <1>5 DEF PublishLayerStartupState, loop, belief, Loop, NormalOperation
<1>6. CASE CompleteFft
  BY <1>6 DEF CompleteFft, Proceeding, startup, loop, Loop, NormalOperation
<1>7. ASSUME NEW what \in {"initial", "refresh", "dwell"}, Due(what)
      PROVE  Loop'
  BY <1>7 DEF Due, Proceeding, startup, belief, Loop, NormalOperation
<1>8. CASE PublishInitialFftVisual
  BY <1>8 DEF PublishInitialFftVisual, startup, Loop, NormalOperation, StartInv
<1>9. CASE Rotate \/ Refresh
  <2>1. /\ at' = "menu" /\ UNCHANGED <<startup, published, suppressed, active>>
    BY <1>9 DEF Rotate, Refresh, belief
  <2>. QED  BY <2>1 DEF startup, Loop, NormalOperation
<1>10. CASE \E g \in Observed :
              Lose(g) \/ Handle(g) \/ UpdateFade(g) \/ CompleteLayerFadeSwap(g)
  <2>1. UNCHANGED <<bringup, layersSet, loop, belief>>
    BY <1>10, Handling DEF Lose, UpdateFade, CompleteLayerFadeSwap, startup, Handled
  <2>. QED  BY <2>1 DEF loop, belief, Loop, NormalOperation
<1>. QED
  BY <1>1, <1>2, <1>3, <1>4, <1>5, <1>6, <1>7, <1>8, <1>9, <1>10 DEF Next, Work

LEMMA StageIs ==
    ASSUME TypeInv
    PROVE  /\ active \in Layers /\ Other[active] \in Layers /\ Other[Other[active]] = active
           /\ preset \in Preset /\ (preset + 1) % PresetCount \in Preset
           /\ StageCommands = StageOf(Other[active], (preset + 1) % PresetCount)
           /\ \A g \in Observed : chan[g] \in Seq(Command)
           /\ \A g \in Observed : \A cmds : Broadcast(cmds) => chan'[g] = chan[g] \o cmds
BY LayersAre, Constants DEF TypeInv, BeliefType, ChanType, StageCommands, StageOf, Broadcast

LEMMA AgreesStep ==
    ASSUME TypeInv, StartInv, Loop, [Next]_vars, NEW g \in Observed, Agrees(g)
    PROVE  Agrees(g)'
<1>. SUFFICES ASSUME Followed(g)'
              PROVE  \E s, t \in Token : /\ Matches(g, s)' /\ Leads("shows", s, chan'[g], t)
                                         /\ Believes(t)'
  BY DEF Agrees
<1>1. ~suppressed' /\ ~stopping' /\ spent'["loss"] = 0 /\ ~cut'[g] /\ published'
      /\ ~suppressed /\ ~stopping /\ spent["loss"] = 0
  BY Later DEF Followed
<1>2. ASSUME published, ~cut[g]
      PROVE  \E s, t \in Token : Matches(g, s) /\ Leads("shows", s, chan[g], t) /\ Believes(t)
  BY <1>1, <1>2 DEF Agrees, Followed
<1>3. CASE Stays(g)
  <2>1. published /\ ~cut[g]
    BY <1>1, <1>3 DEF Stays
  <2>2. PICK s, t \in Token : Matches(g, s) /\ Leads("shows", s, chan[g], t) /\ Believes(t)
    BY <1>2, <2>1
  <2>3. Matches(g, s)' /\ Leads("shows", s, chan'[g], t)
    BY <1>3, <2>2 DEF Stays, Matches
  <2>4. Believes(t)'
    BY <1>3, <2>2 DEF Stays, Believes, BelievedLayer, BelievedPreset
  <2>. QED  BY <2>3, <2>4
<1>4. CASE PublishEnable
  BY <1>1, <1>4 DEF PublishEnable, Loop, NormalOperation, belief
<1>5. CASE PublishLayerStartupState
  BY <1>1, <1>5 DEF PublishLayerStartupState, Loop, belief
\* A stage, in full or in part.
<1>6. ASSUME published, ~fading, UNCHANGED <<published, active, preset, engine>>,
             \/ Broadcast(StageCommands) /\ fading' = TRUE
                /\ pending' = (preset + 1) % PresetCount
             \/ /\ \E i \in DOMAIN StageCommands : Broadcast(SubSeq(StageCommands, 1, i - 1))
                /\ fading' = FALSE
      PROVE  \E s, t \in Token : /\ Matches(g, s)' /\ Leads("shows", s, chan'[g], t)
                                 /\ Believes(t)'
  <2> DEFINE p == (preset + 1) % PresetCount
  <2>1. ~cut[g]
    BY <1>1, <1>6 DEF engine
  <2>2. PICK s, t \in Token : Matches(g, s) /\ Leads("shows", s, chan[g], t) /\ Believes(t)
    BY <1>2, <1>6, <2>1
  <2>3. t.of \in Following /\ t.layer = active /\ t.preset = preset
    BY <1>6, <2>2 DEF Believes, BelievedLayer, BelievedPreset
  <2>4. Matches(g, s)'
    BY <1>6, <2>2 DEF Matches, engine
  <2>5. chan[g] \in Seq(Command) /\ active \in Layers /\ p \in Preset
        /\ StageCommands = StageOf(Other[active], p)
    BY StageIs
  <2>6. CASE Broadcast(StageCommands) /\ fading' = TRUE /\ pending' = p
    <3>1. PICK u \in Token : /\ Leads("shows", s, chan[g] \o StageOf(Other[active], p), u)
                             /\ u.of \in Following /\ u.layer = Other[active] /\ u.preset = p
      BY <2>2, <2>3, <2>5, StageShows
    <3>2. Leads("shows", s, chan'[g], u)
      BY <2>5, <2>6, <3>1, StageIs
    <3>3. Believes(u)'
      BY <1>6, <2>6, <3>1 DEF Believes, BelievedLayer, BelievedPreset
    <3>. QED  BY <2>4, <3>2, <3>3
  <2>7. ASSUME NEW i \in DOMAIN StageCommands, Broadcast(SubSeq(StageCommands, 1, i - 1)),
               fading' = FALSE
        PROVE  \E s1, t1 \in Token : /\ Matches(g, s1)' /\ Leads("shows", s1, chan'[g], t1)
                                     /\ Believes(t1)'
    <3>1. PICK u \in Token :
             /\ Leads("shows", s, chan[g] \o SubSeq(StageOf(Other[active], p), 1, i - 1), u)
             /\ u.of \in Following /\ u.layer = active /\ u.preset = t.preset
      BY <2>2, <2>3, <2>5, <2>7, StageShows
    <3>2. Leads("shows", s, chan'[g], u)
      BY <2>5, <2>7, <3>1, StageIs
    <3>3. Believes(u)'
      BY <1>6, <2>3, <2>7, <3>1 DEF Believes, BelievedLayer, BelievedPreset
    <3>. QED  BY <2>4, <3>2, <3>3
  <2>. QED  BY <1>6, <2>6, <2>7
<1>7. CASE ~fading /\ HandleMenu
  <2>1. published /\ UNCHANGED <<published, active, preset, engine>>
    BY <1>1, <1>7 DEF HandleMenu
  <2>2. NormalOperation /\ StageNextFftVisual
    BY <1>7, <2>1 DEF HandleMenu, Loop
  <2>3. \E ok \in BOOLEAN : /\ TryEach(StageCommands, ok) /\ fading' = ok
                            /\ pending' = IF ok THEN (preset + 1) % PresetCount ELSE pending
    BY <1>7, <2>2 DEF StageNextFftVisual
  <2>. QED  BY <1>6, <1>7, <2>1, <2>3 DEF TryEach
<1>8. CASE Rotate
  <2>1. published /\ ~fading /\ UNCHANGED <<published, active, preset, engine>>
    BY <1>1, <1>8 DEF Rotate, Loop
  <2>2. \/ Broadcast(StageCommands) /\ fading' = TRUE
           /\ pending' = (preset + 1) % PresetCount
        \/ /\ \E i \in DOMAIN StageCommands : Broadcast(SubSeq(StageCommands, 1, i - 1))
           /\ fading' = FALSE
    BY <1>8, <2>1 DEF Rotate, TryEach, TypeInv, BeliefType
  <2>. QED  BY <1>6, <2>1, <2>2
<1>9. CASE CompleteFft
  <2>1. published /\ fading /\ UNCHANGED <<published, pending, chan, engine>>
        /\ active' = Other[active] /\ preset' = pending /\ fading' = FALSE
    BY <1>9 DEF CompleteFft
  <2>2. ~cut[g]
    BY <1>1, <2>1 DEF engine
  <2>3. PICK s, t \in Token : Matches(g, s) /\ Leads("shows", s, chan[g], t) /\ Believes(t)
    BY <1>2, <2>1, <2>2
  <2>4. Matches(g, s)' /\ Leads("shows", s, chan'[g], t)
    BY <2>1, <2>3 DEF Matches, engine
  <2>5. Believes(t)'
    BY <2>1, <2>3 DEF Believes, BelievedLayer, BelievedPreset
  <2>. QED  BY <2>4, <2>5
<1>10. CASE PublishInitialFftVisual
  <2>1. /\ active' = "Fft" /\ preset' = 0 /\ fading' = FALSE
        /\ TryAll(InitialVisual, TRUE)
    BY <1>1, <1>10 DEF PublishInitialFftVisual, InitialVisual
  <2>2. chan[g] \in Seq(Command) /\ chan'[g] = chan[g] \o InitialVisual
    BY <2>1, StageIs DEF TryAll
  <2>3. PICK s, u \in Token : /\ Leads("shows", s, chan[g] \o InitialVisual, u) /\ s.of = "any"
                              /\ u.of = "ready" /\ u.layer = "Fft" /\ u.preset = 0
    BY <2>2, InitialShows
  <2>4. Matches(g, s)'
    BY <2>3 DEF Matches, Following
  <2>5. Believes(u)'
    BY <2>1, <2>3 DEF Believes, BelievedLayer, BelievedPreset, Following
  <2>. QED  BY <2>2, <2>3, <2>4, <2>5
<1>11. CASE Refresh
  <2>1. published /\ ~fading /\ UNCHANGED <<belief, engine>>
    BY <1>1, <1>11 DEF Refresh, Loop
  <2>2. ~cut[g]
    BY <1>1, <2>1 DEF engine
  <2>3. PICK s, t \in Token : Matches(g, s) /\ Leads("shows", s, chan[g], t) /\ Believes(t)
    BY <1>2, <2>1, <2>2
  <2>4. Matches(g, s)' /\ Believes(t)'
    BY <2>1, <2>3 DEF Matches, Believes, BelievedLayer, BelievedPreset, engine, belief
  <2>5. PICK ok \in BOOLEAN : TryEach(<<Play(preset, active)>>, ok)
    BY <1>11 DEF Refresh
  <2>6. CASE Broadcast(<<Play(preset, active)>>)
    <3>1. Goes("shows", t, Play(preset, active), t)
      BY <2>1, <2>3 DEF Goes, Shows, Believes, BelievedLayer, BelievedPreset
    <3>2. Play(preset, active) \in Command /\ chan[g] \in Seq(Command)
      BY StageIs, Commands
    <3>3. Leads("shows", s, chan[g] \o <<Play(preset, active)>>, t)
      BY <2>3, <3>1, <3>2, LeadsMore
    <3>4. Leads("shows", s, chan'[g], t)
      BY <2>6, <3>3, StageIs
    <3>. QED  BY <2>4, <3>4
  <2>7. ASSUME NEW i \in DOMAIN <<Play(preset, active)>>,
               Broadcast(SubSeq(<<Play(preset, active)>>, 1, i - 1))
        PROVE  Leads("shows", s, chan'[g], t)
    <3>1. i = 1
      OBVIOUS
    <3>2. SubSeq(<<Play(preset, active)>>, 1, i - 1) = <<>>
      BY <3>1, SubSeqEmpty
    <3>3. chan[g] \o <<>> = chan[g]
      BY StageIs
    <3>4. chan'[g] = chan[g]
      BY <2>7, <3>2, <3>3, StageIs
    <3>. QED  BY <2>3, <3>4
  <2>. QED  BY <2>4, <2>5, <2>6, <2>7 DEF TryEach
<1>12. CASE Lose(g)
  <2>1. "loss" \in DOMAIN Budget /\ spent'["loss"] = spent["loss"] + 1
    BY <1>12, Constants, Spent DEF Lose
  <2>. QED  BY <1>1, <2>1
<1>13. CASE Handle(g)
  <2>1. /\ chan[g] # <<>> /\ chan'[g] = Tail(chan[g]) /\ UNCHANGED belief
        /\ ~cut[g] /\ chan[g] \in Seq(Command)
    BY <1>1, <1>13, Handling, StageIs DEF Handled, TypeInv, EngineType
  <2>2. PICK s, t \in Token : Matches(g, s) /\ Leads("shows", s, chan[g], t) /\ Believes(t)
    BY <1>1, <1>2, <2>1 DEF belief
  <2>3. PICK m \in Token : Goes("shows", s, Head(chan[g]), m) /\ Leads("shows", m, Tail(chan[g]), t)
    BY <2>1, <2>2, LeadsOne
  <2>4. Matches(g, m)'
    BY <1>1, <1>13, <2>2, <2>3, ShowsOn DEF Goes
  <2>5. Believes(t)'
    BY <2>1, <2>2 DEF belief, Believes, BelievedLayer, BelievedPreset
  <2>. QED  BY <2>1, <2>3, <2>4, <2>5
<1>14. CASE UpdateFade(g) \/ CompleteLayerFadeSwap(g)
  <2>1. /\ chan'[g] = chan[g] /\ cut'[g] = cut[g]
        /\ UNCHANGED <<published, fading, active, preset, pending>>
        /\ \A s \in Token : Matches(g, s) => Matches(g, s)'
    BY <1>14, FadesOn
  <2>2. PICK s, t \in Token : Matches(g, s) /\ Leads("shows", s, chan[g], t) /\ Believes(t)
    BY <1>1, <1>2, <2>1
  <2>3. Believes(t)'
    BY <2>1, <2>2 DEF Believes, BelievedLayer, BelievedPreset
  <2>. QED  BY <2>1, <2>2, <2>3
<1>. QED
  BY <1>1, <1>3, <1>4, <1>5, <1>7, <1>8, <1>9, <1>10, <1>11, <1>12, <1>13, <1>14, StepsOf

LEMMA SwapsStep ==
    ASSUME TypeInv, StartInv, Loop, [Next]_vars, NEW g \in Observed, Swaps(g),
           Losable \subseteq {"play", "enable", "stop"}
    PROVE  Swaps(g)'
<1>. SUFFICES ASSUME Undisturbed(g)'
              PROVE  /\ ~refused'[g]
                     /\ \E s, t \in Token : /\ Fits(g, s)' /\ Leads("accepts", s, chan'[g], t)
                                            /\ Expects(t)'
  BY DEF Swaps
<1>1. ~suppressed' /\ ~stopping' /\ spent'["failure"] = 0 /\ ~cut'[g]
      /\ ~suppressed /\ ~stopping /\ spent["failure"] = 0
  BY Later DEF Undisturbed
<1>2. ASSUME ~cut[g]
      PROVE  /\ ~refused[g]
             /\ \E s, t \in Token : Fits(g, s) /\ Leads("accepts", s, chan[g], t) /\ Expects(t)
  BY <1>1, <1>2 DEF Swaps, Undisturbed
<1>3. ASSUME Spend("failure")
      PROVE  FALSE
  <2>1. spent'["failure"] = spent["failure"] + 1
    BY <1>3, Constants, Spent
  <2>. QED  BY <1>1, <2>1
\* Steps that leave the engine alone, and what leads on from the last token.
<1>4. ASSUME UNCHANGED engine,
             \A s, t \in Token : Leads("accepts", s, chan[g], t) /\ Expects(t) =>
                \E u \in Token : Leads("accepts", s, chan'[g], u) /\ Expects(u)'
      PROVE  /\ ~refused'[g]
             /\ \E s, t \in Token : /\ Fits(g, s)' /\ Leads("accepts", s, chan'[g], t)
                                    /\ Expects(t)'
  <2>1. ~cut[g]
    BY <1>1, <1>4 DEF engine
  <2>2. PICK s, t \in Token : Fits(g, s) /\ Leads("accepts", s, chan[g], t) /\ Expects(t)
    BY <1>2, <2>1
  <2>3. Fits(g, s)' /\ ~refused'[g]
    BY <1>2, <1>4, <2>1, <2>2 DEF Fits, engine
  <2>. QED  BY <1>4, <2>2, <2>3
<1>5. CASE Stays(g)
  <2>1. ~cut[g]
    BY <1>1, <1>5 DEF Stays
  <2>2. PICK s, t \in Token : Fits(g, s) /\ Leads("accepts", s, chan[g], t) /\ Expects(t)
    BY <1>2, <2>1
  <2>3. Fits(g, s)' /\ Leads("accepts", s, chan'[g], t) /\ ~refused'[g]
    BY <1>2, <1>5, <2>1, <2>2 DEF Stays, Fits
  <2>4. Expects(t)'
    BY <1>5, <2>2 DEF Stays, Expects, BelievedLayer
  <2>. QED  BY <2>3, <2>4
<1>6. CASE PublishEnable
  <2>1. UNCHANGED <<belief, engine>>
        /\ (chan'[g] = chan[g] \/ chan'[g] = Append(chan[g], Enable))
    BY <1>6 DEF PublishEnable, TypeInv, ChanType
  <2>2. ASSUME NEW s \in Token, NEW t \in Token, Leads("accepts", s, chan[g], t), Expects(t)
        PROVE  Leads("accepts", s, chan'[g], t) /\ Expects(t)'
    <3>1. Goes("accepts", t, Enable, t)
      BY <2>2 DEF Goes, Accepts, Expects, Enable
    <3>2. Leads("accepts", s, Append(chan[g], Enable), t)
      BY <2>2, <3>1, LeadsOn, StageIs, Commands
    <3>. QED  BY <2>1, <2>2, <3>2 DEF Expects, BelievedLayer, belief
  <2>. QED  BY <1>4, <2>1, <2>2
<1>7. CASE PublishLayerStartupState
  <2> DEFINE a == Active("Fft", TRUE)
             b == Active("FftAlt", FALSE)
  <2>1. UNCHANGED <<belief, engine>> /\ Broadcast(<<a, b>>)
    BY <1>3, <1>7 DEF PublishLayerStartupState, TryAll
  <2>2. ASSUME NEW s \in Token, NEW t \in Token, Leads("accepts", s, chan[g], t), Expects(t)
        PROVE  \E u \in Token : Leads("accepts", s, chan'[g], u) /\ Expects(u)'
    <3> DEFINE u == [t EXCEPT !.of = IF @ = "rest" THEN "ready" ELSE @]
    <3>1. u \in Token /\ u.layer = t.layer /\ u.of = (IF t.of = "rest" THEN "ready" ELSE t.of)
          /\ u = [u EXCEPT !.of = IF @ = "rest" THEN "ready" ELSE @]
      BY DEF Token, Following
    <3>2. a \in Command /\ b \in Command /\ a.kind = "active" /\ b.kind = "active"
      BY Commands, LayersAre DEF Active
    <3>3. Goes("accepts", t, a, u) /\ Goes("accepts", u, b, u)
      BY <2>2, <3>1, <3>2 DEF Goes, Accepts, Expects
    <3> HIDE DEF a, b, u
    <3>4. Leads("accepts", s, chan[g] \o <<a, b>>, u)
      BY <2>2, <3>1, <3>2, <3>3, LeadsMore, StageIs
    <3>5. Expects(u)'
      BY <2>1, <2>2, <3>1 DEF Expects, BelievedLayer, belief
    <3>. QED  BY <2>1, <3>1, <3>4, <3>5, StageIs
  <2>. QED  BY <1>4, <2>1, <2>2
\* A stage.
<1>8. ASSUME ~fading, UNCHANGED <<published, active, engine>>,
             Broadcast(StageCommands), fading' = TRUE
      PROVE  /\ ~refused'[g]
             /\ \E s, t \in Token : /\ Fits(g, s)' /\ Leads("accepts", s, chan'[g], t)
                                    /\ Expects(t)'
  <2> DEFINE p == (preset + 1) % PresetCount
  <2>1. chan[g] \in Seq(Command) /\ active \in Layers /\ p \in Preset
        /\ StageCommands = StageOf(Other[active], p)
    BY StageIs
  <2>2. ASSUME NEW s \in Token, NEW t \in Token, Leads("accepts", s, chan[g], t), Expects(t)
        PROVE  \E u \in Token : Leads("accepts", s, chan'[g], u) /\ Expects(u)'
    <3>1. t.layer = active /\ t.of \in {"start", "rest", "ready"}
      BY <1>8, <2>2 DEF Expects, BelievedLayer
    <3>2. PICK u \in Token : /\ Leads("accepts", s, chan[g] \o StageOf(Other[active], p), u)
                             /\ u.of = "rest" /\ u.layer = Other[active]
      BY <2>1, <2>2, <3>1, StageAccepted
    <3>3. Expects(u)'
      BY <1>8, <3>2 DEF Expects, BelievedLayer
    <3>4. Leads("accepts", s, chan'[g], u)
      BY <1>8, <2>1, <3>2, StageIs
    <3>. QED  BY <3>3, <3>4
  <2>. QED  BY <1>4, <1>8, <2>2
<1>9. CASE ~fading /\ HandleMenu
  <2>1. UNCHANGED <<published, active, engine>>
    BY <1>9 DEF HandleMenu
  <2>2. CASE StageNextFftVisual
    <3>1. Broadcast(StageCommands) /\ fading' = TRUE
      BY <1>3, <1>9, <2>2 DEF StageNextFftVisual, TryEach
    <3>. QED  BY <1>8, <1>9, <2>1, <3>1
  <2>3. CASE UNCHANGED <<fading, pending, chan, spent>>
    <3>1. \A t : Expects(t) => Expects(t)'
      BY <2>1, <2>3 DEF Expects, BelievedLayer
    <3>. QED  BY <1>4, <2>1, <2>3, <3>1
  <2>. QED  BY <1>9, <2>2, <2>3 DEF HandleMenu
<1>10. CASE Rotate
  <2>1. ~fading /\ UNCHANGED <<published, active, engine>>
    BY <1>1, <1>10 DEF Rotate, Loop
  <2>2. Broadcast(StageCommands) /\ fading' = TRUE
    BY <1>3, <1>10 DEF Rotate, TryEach
  <2>. QED  BY <1>8, <2>1, <2>2
<1>11. CASE CompleteFft
  <2>1. published /\ fading /\ UNCHANGED <<published, chan, engine>>
        /\ active' = Other[active] /\ fading' = FALSE
    BY <1>11 DEF CompleteFft
  <2>2. \A t : Expects(t) => Expects(t)'
    BY <2>1 DEF Expects, BelievedLayer
  <2>. QED  BY <1>4, <2>1, <2>2
<1>12. CASE PublishInitialFftVisual
  <2>1. active' = "Fft" /\ fading' = FALSE /\ UNCHANGED engine /\ Broadcast(InitialVisual)
    BY <1>3, <1>12 DEF PublishInitialFftVisual, InitialVisual, TryAll
  <2>2. ASSUME NEW s \in Token, NEW t \in Token, Leads("accepts", s, chan[g], t), Expects(t)
        PROVE  \E u \in Token : Leads("accepts", s, chan'[g], u) /\ Expects(u)'
    <3>1. PICK u \in Token : /\ Leads("accepts", s, chan[g] \o InitialVisual, u)
                             /\ u.of = "ready" /\ u.layer = "Fft"
      BY <2>2, InitialAccepted, StageIs DEF Expects
    <3>2. Expects(u)'
      BY <2>1, <3>1 DEF Expects, BelievedLayer
    <3>. QED  BY <2>1, <3>1, <3>2, StageIs
  <2>. QED  BY <1>4, <2>1, <2>2
<1>13. CASE Refresh
  <2> DEFINE a == Play(preset, active)
  <2>1. UNCHANGED <<belief, engine>> /\ Broadcast(<<a>>)
    BY <1>3, <1>13 DEF Refresh, TryEach
  <2>2. ASSUME NEW s \in Token, NEW t \in Token, Leads("accepts", s, chan[g], t), Expects(t)
        PROVE  Leads("accepts", s, chan'[g], t) /\ Expects(t)'
    <3>1. a \in Command /\ a.kind = "play"
      BY StageIs, Commands DEF Play
    <3>2. Goes("accepts", t, a, t)
      BY <2>2, <3>1 DEF Goes, Accepts, Expects
    <3> HIDE DEF a
    <3>3. Leads("accepts", s, chan[g] \o <<a>>, t)
      BY <2>2, <3>1, <3>2, LeadsMore, StageIs
    <3>. QED  BY <2>1, <2>2, <3>3, StageIs DEF Expects, BelievedLayer, belief
  <2>. QED  BY <1>4, <2>1, <2>2
<1>14. CASE Lose(g)
  <2>1. /\ chan[g] # <<>> /\ chan'[g] = Tail(chan[g]) /\ UNCHANGED <<belief, engine>>
        /\ Head(chan[g]).kind \in {"play", "enable", "stop"} /\ chan[g] \in Seq(Command)
    BY <1>14, StageIs DEF Lose, Take, TypeInv, ChanType
  <2>2. ASSUME NEW s \in Token, NEW t \in Token, Leads("accepts", s, chan[g], t), Expects(t)
        PROVE  Leads("accepts", s, chan'[g], t) /\ Expects(t)'
    <3>1. PICK m \in Token : Goes("accepts", s, Head(chan[g]), m)
                             /\ Leads("accepts", m, Tail(chan[g]), t)
      BY <2>1, <2>2, LeadsOne
    <3>2. m = s
      BY <2>1, <3>1 DEF Goes, Accepts, SetOpacity
    <3>. QED  BY <2>1, <2>2, <3>1, <3>2 DEF Expects, BelievedLayer, belief
  <2>. QED  BY <1>4, <2>1, <2>2
<1>15. CASE Handle(g)
  <2>1. /\ chan[g] # <<>> /\ chan'[g] = Tail(chan[g]) /\ UNCHANGED belief
        /\ ~cut[g] /\ chan[g] \in Seq(Command)
    BY <1>1, <1>15, Handling, StageIs DEF Handled, TypeInv, EngineType
  <2>2. PICK s, t \in Token : Fits(g, s) /\ Leads("accepts", s, chan[g], t) /\ Expects(t)
    BY <1>2, <2>1
  <2>3. PICK m \in Token : Goes("accepts", s, Head(chan[g]), m)
                           /\ Leads("accepts", m, Tail(chan[g]), t)
    BY <2>1, <2>2, LeadsOne
  <2>4. Fits(g, m)' /\ refused'[g] = refused[g]
    BY <1>1, <1>15, <2>2, <2>3, FitsOn DEF Goes
  <2>5. Expects(t)'
    BY <2>1, <2>2 DEF belief, Expects, BelievedLayer
  <2>. QED  BY <1>2, <2>1, <2>3, <2>4, <2>5
<1>16. CASE UpdateFade(g) \/ CompleteLayerFadeSwap(g)
  <2>1. /\ chan'[g] = chan[g] /\ cut'[g] = cut[g] /\ refused'[g] = refused[g]
        /\ UNCHANGED <<published, fading, active, preset, pending>>
        /\ \A s \in Token : Fits(g, s) => Fits(g, s)'
    BY <1>16, FadesOn
  <2>2. PICK s, t \in Token : Fits(g, s) /\ Leads("accepts", s, chan[g], t) /\ Expects(t)
    BY <1>1, <1>2, <2>1
  <2>3. Expects(t)'
    BY <2>1, <2>2 DEF Expects, BelievedLayer
  <2>. QED  BY <1>1, <1>2, <2>1, <2>2, <2>3
<1>. QED
  BY <1>1, <1>5, <1>6, <1>7, <1>9, <1>10, <1>11, <1>12, <1>13, <1>14, <1>15, <1>16, StepsOf

LEMMA AgreesInit ==
    ASSUME Init, NEW g \in Observed
    PROVE  Agrees(g) /\ Swaps(g)
<1> DEFINE s == Tok("start", "Fft", 0, 0)
<1>1. s \in Token /\ s.of = "start" /\ s.layer = "Fft"
  BY TokenType, LayersAre, Constants DEF Tok
<1>2. Leads("accepts", s, chan[g], s)
  BY <1>1, LeadsNone DEF Init
<1>3. Fits(g, s) /\ Expects(s)
  BY <1>1, LayersAre DEF Init, Fits, Expects, BelievedLayer
<1>4. ~refused[g] /\ ~published
  BY DEF Init
<1>. QED  BY <1>1, <1>2, <1>3, <1>4 DEF Agrees, Swaps, Followed

LEMMA AgreesAlways == Spec => [](TypeInv /\ StartInv /\ Loop /\ \A g \in Observed : Agrees(g))
<1> DEFINE I == TypeInv /\ StartInv /\ Loop /\ \A g \in Observed : Agrees(g)
<1>1. Init => I
  BY InitTypes, InitStart, LoopInit, AgreesInit
<1>2. I /\ [Next]_vars => I'
  <2>. SUFFICES ASSUME I, [Next]_vars PROVE I'
    OBVIOUS
  <2>1. TypeInv' /\ StartInv' /\ Loop'
    BY TypeStep, StartStep, LoopStep
  <2>2. \A g \in Observed : Agrees(g)'
    BY AgreesStep
  <2>. QED  BY <2>1, <2>2
<1>. QED  BY <1>1, <1>2, PTL DEF Spec

\* When everything has arrived and no fade runs, each GPU shows the preset and
\* the layer the master believes in, whatever failed and was selected.
THEOREM Agreeing == Spec => []Agreement
<1>1. ASSUME \A g \in Observed : Agrees(g)
      PROVE  Agreement
  <2>. SUFFICES ASSUME NEW g \in Observed, chan[g] = <<>>, fade[g] = NoFade, at = "menu",
                       published, ~fading, ~suppressed, ~stopping, spent["loss"] = 0, ~cut[g]
                PROVE  Showing(g)
    BY DEF Agreement
  <2>1. PICK s, t \in Token : Matches(g, s) /\ Leads("shows", s, chan[g], t) /\ Believes(t)
    BY <1>1 DEF Agrees, Followed
  <2>2. s = t
    BY <2>1, LeadsNone
  <2>3. s.of \in Following /\ s.layer = active /\ s.preset = preset /\ active \in Layers
    BY <2>1, <2>2 DEF Believes, BelievedLayer, BelievedPreset, Token
  <2>4. /\ enabled[g][active] /\ opacity[g][active] = "full"
        /\ opacity[g][Other[active]] = "zero" /\ playing[g][active] = preset
    BY <2>1, <2>3, LayersAre DEF Matches, Following, NoFade
  <2>5. Layers = {active, Other[active]}
    BY <2>3 DEF Layers, Other
  <2>. QED  BY <2>3, <2>4, <2>5 DEF Showing, Lit
<1>. QED  BY <1>1, AgreesAlways, PTL

\* While no publish fails and the show is not stopped, a GPU whose fades were
\* not cut accepts every fade swap, although play commands are lost.
THEOREM SwapsAccepted ==
    ASSUME Losable \subseteq {"play", "enable", "stop"}
    PROVE  Spec => []RefusedOnlyAfterCut
<1> DEFINE I == TypeInv /\ StartInv /\ Loop /\ \A g \in Observed : Swaps(g)
<1>1. Init => I
  BY InitTypes, InitStart, LoopInit, AgreesInit
<1>2. I /\ [Next]_vars => I'
  <2>. SUFFICES ASSUME I, [Next]_vars PROVE I'
    OBVIOUS
  <2>1. TypeInv' /\ StartInv' /\ Loop'
    BY TypeStep, StartStep, LoopStep
  <2>2. \A g \in Observed : Swaps(g)'
    BY SwapsStep
  <2>. QED  BY <2>1, <2>2
<1>3. I => RefusedOnlyAfterCut
  BY DEF Swaps, Undisturbed, RefusedOnlyAfterCut, TypeInv, SpentType, Budget
<1>. QED  BY <1>1, <1>2, <1>3, PTL DEF Spec
=============================================================================
