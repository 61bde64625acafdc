-------------------------------- MODULE Show --------------------------------
(***************************************************************************)
(* The light show: the master waits for the GPUs, has the output gate      *)
(* opened, runs the boot animation and then keeps one FFT visual on the    *)
(* display, crossfading between two layers.  The master never reads a      *)
(* GPU's state: it predicts it.  Each GPU applies the commands it gets, in *)
(* its own time, to the layers and animations of its engine.               *)
(*                                                                         *)
(* Time is abstract.  A fade ends, on either side, at any time after it    *)
(* began: the two sides start it when they publish and when they handle    *)
(* the swap.  A preset's dwell time and the refresh interval are longer    *)
(* than a command's way to the GPUs and a fade (Quiet); a user is not so   *)
(* patient.                                                                *)
(***************************************************************************)
EXTENDS Integers, Sequences, SequencesExt, FiniteSets

CONSTANTS
    GPU,          \* the nodes that render
    GateOwner,    \* the GPU that drives LED_EN (GPU1)
    Observed,     \* GPUs whose engine is followed; engines do not interact
    PresetCount,  \* config.fftVisuals.presets
    Losable,      \* kinds of commands that may get lost on the way to a GPU
    None,         \* no animation on a layer
    MaxDwells,    \* bound: crossfades the master starts by itself
    MaxNexts,     \* bound: selections of the menu item Next
    MaxStops,     \* bound: stop commands
    MaxFailures,  \* bound: publishes that fail
    MaxLosses     \* bound: lost commands

Preset == 0 .. PresetCount - 1
Layers == {"Fft", "FftAlt"}
Other == [Fft |-> "FftAlt", FftAlt |-> "Fft"]
\* 0, 1 .. 254 and layerFullOpacity
Opacities == {"zero", "part", "full"}

ASSUME ShowAssumption ==
    /\ GateOwner \in Observed /\ Observed \subseteq GPU /\ IsFiniteSet(GPU)
    /\ PresetCount \in Nat \ {0, 1} /\ None \notin Preset
    /\ Losable \subseteq {"enable", "active", "opacity", "play", "swap", "stop"}
    /\ {MaxDwells, MaxNexts, MaxStops, MaxFailures, MaxLosses} \subseteq Nat

VARIABLES
    begun,        \* GPUs whose LedStartup has begun
    gateOpen,     \* the gate's level, held closed by its owner
    mask,         \* readyGpuMask
    bringup,      \* how far MasterLedBringup is
    layersSet,    \* layerStartupStatePublished
    at,           \* where the main loop is: what it found due in this pass
    menu,         \* Next events in menuEventQueue
    stopping,     \* a stop command published, its local callback still to run
    published,    \* fftVisualPublished
    suppressed,   \* fftVisualSuppressed
    fading,       \* fftFadeInProgress
    active,       \* activeFftLayer; hiddenFftLayer is the other one
    preset,       \* activeFftPresetIndex
    pending,      \* pendingFftPresetIndex
    chan,         \* commands on their way to a GPU, its command queue included
    enabled, opacity,  \* of a layer of a GPU
    playing,      \* preset the animation on a layer of a GPU shows
    fade,         \* the layer a GPU's fade swap leads to
    cut,          \* a GPU's fade was cancelled before its end (history)
    refused,      \* a GPU dropped a fade swap
    spent         \* bounds

startup == <<begun, gateOpen, mask, bringup, layersSet>>
loop == <<at, menu, stopping>>
belief == <<published, suppressed, fading, active, preset, pending>>
engine == <<enabled, opacity, playing, fade, cut, refused>>
vars == <<startup, loop, belief, chan, engine, spent>>

Enable == [kind |-> "enable"]
Active(l, on) == [kind |-> "active", layer |-> l, on |-> on]
SetOpacity(l, o) == [kind |-> "opacity", layer |-> l, value |-> o]
Play(p, l) == [kind |-> "play", layer |-> l, preset |-> p]
Swap(l1, l2) == [kind |-> "swap", first |-> l1, second |-> l2]
Stop(ls) == [kind |-> "stop", layers |-> ls]
Command ==
    {Enable} \cup {Active(l, on) : l \in Layers, on \in BOOLEAN}
        \cup {SetOpacity(l, o) : l \in Layers, o \in Opacities}
        \cup {Play(p, l) : p \in Preset, l \in Layers}
        \cup {Swap(l, Other[l]) : l \in Layers} \cup {Stop(ls) : ls \in SUBSET Layers}

NoFade == "none"
Stage == {"off", "waiting", "enabled", "booting", "normal"}
Budget == [dwell |-> MaxDwells, next |-> MaxNexts, stop |-> MaxStops,
           failure |-> MaxFailures, loss |-> MaxLosses]
Spend(k) == spent[k] < Budget[k] /\ spent' = [spent EXCEPT ![k] = @ + 1]

TypeOK ==
    /\ begun \subseteq GPU /\ mask \subseteq GPU
    /\ gateOpen \in BOOLEAN /\ bringup \in Stage /\ layersSet \in BOOLEAN
    /\ at \in {"menu", "initial", "dwell", "refresh"}
    /\ menu \in 0 .. MaxNexts /\ stopping \in BOOLEAN
    /\ {published, suppressed, fading} \subseteq BOOLEAN
    /\ active \in Layers /\ {preset, pending} \subseteq Preset
    /\ chan \in [Observed -> Seq(Command)]
    /\ enabled \in [Observed -> [Layers -> BOOLEAN]]
    /\ opacity \in [Observed -> [Layers -> Opacities]]
    /\ playing \in [Observed -> [Layers -> Preset \cup {None}]]
    /\ fade \in [Observed -> Layers \cup {NoFade}]
    /\ cut \in [Observed -> BOOLEAN] /\ refused \in [Observed -> BOOLEAN]
    /\ spent \in [DOMAIN Budget -> Nat]
    /\ \A k \in DOMAIN Budget : spent[k] <= Budget[k]

Init ==
    /\ begun = {} /\ gateOpen = FALSE /\ mask = {} /\ bringup = "off"
    /\ layersSet = FALSE
    /\ at = "menu" /\ menu = 0 /\ stopping = FALSE
    /\ published = FALSE /\ suppressed = FALSE /\ fading = FALSE
    /\ active = "Fft" /\ preset = 0 /\ pending = 0
    /\ chan = [g \in Observed |-> <<>>]
    /\ enabled = [g \in Observed |-> [l \in Layers |-> l = "Fft"]]
    /\ opacity = [g \in Observed |-> [l \in Layers |-> "full"]]
    /\ playing = [g \in Observed |-> [l \in Layers |-> None]]
    /\ fade = [g \in Observed |-> NoFade]
    /\ cut = [g \in Observed |-> FALSE] /\ refused = [g \in Observed |-> FALSE]
    /\ spent = [k \in DOMAIN Budget |-> 0]

-----------------------------------------------------------------------------
(* Publishing.  Every GPU subscribes to every animation command.           *)

Broadcast(cmds) == chan' = [g \in Observed |-> chan[g] \o cmds]

\* Publish all of cmds; a failure is returned after the others were tried, of which
\* more may fail.
TryAll(cmds, ok) ==
    \/ ok = TRUE /\ Broadcast(cmds) /\ UNCHANGED spent
    \/ ok = FALSE /\ Spend("failure")
       /\ \E n \in 0 .. Len(cmds) - 1 : \E place \in [1 .. n -> DOMAIN cmds] :
            /\ \A i, j \in 1 .. n : i < j => place[i] < place[j]
            /\ Broadcast([i \in 1 .. n |-> cmds[place[i]]])

\* Publish cmds up to the first failure.
TryEach(cmds, ok) ==
    \/ ok = TRUE /\ Broadcast(cmds) /\ UNCHANGED spent
    \/ ok = FALSE /\ Spend("failure")
       /\ \E i \in DOMAIN cmds : Broadcast(SubSeq(cmds, 1, i - 1))

\* Nothing is on its way and no GPU is still fading.
Quiet == \A g \in Observed : chan[g] = <<>> /\ fade[g] = NoFade

-----------------------------------------------------------------------------
(* Bring-up.                                                               *)

\* A GPU finishes its setup: display subscribed, LedStartup::begin.
Begin(g) ==
    /\ g \notin begun
    /\ begun' = begun \cup {g}
    /\ UNCHANGED <<gateOpen, mask, bringup, layersSet, loop, belief, chan, engine, spent>>

\* MasterLedBringup::begin
MasterBegin ==
    /\ bringup = "off"
    /\ mask' = {} /\ bringup' = "waiting"
    /\ UNCHANGED <<begun, gateOpen, layersSet, loop, belief, chan, engine, spent>>

\* A GPU's periodic readiness event reaches the master.
Announce(g) ==
    /\ g \in begun /\ bringup # "off"
    /\ mask' = mask \cup {g}
    /\ UNCHANGED <<begun, gateOpen, bringup, layersSet, loop, belief, chan, engine, spent>>

\* Mutant: one GPU is enough.
SomeReady == mask # {}

AllReady == mask = GPU

\* Only the owner of the gate subscribes to the enable command.
PublishEnable ==
    /\ at = "menu" /\ bringup = "waiting" /\ AllReady
    /\ \/ /\ bringup' = "enabled"
          /\ chan' = [chan EXCEPT ![GateOwner] = Append(@, Enable)]
          /\ UNCHANGED spent
       \/ Spend("failure") /\ UNCHANGED <<bringup, chan>>
    /\ UNCHANGED <<begun, gateOpen, mask, layersSet, loop, belief, engine>>

\* The spoke sweep, on a layer of its own, is published once.
PublishSweep ==
    /\ at = "menu" /\ bringup = "enabled"
    /\ \/ bringup' = "booting" /\ UNCHANGED spent
       \/ Spend("failure") /\ UNCHANGED bringup
    /\ UNCHANGED <<begun, gateOpen, mask, layersSet, loop, belief, chan, engine>>

\* The lifetime of the sweep has passed.
BootFinished ==
    /\ at = "menu" /\ bringup = "booting"
    /\ bringup' = "normal"
    /\ UNCHANGED <<begun, gateOpen, mask, layersSet, loop, belief, chan, engine, spent>>

NormalOperation == bringup = "normal"

-----------------------------------------------------------------------------
(* The master's main loop: MasterOrchestration::work.                      *)

\* The user selects Next.
PressNext ==
    /\ Spend("next")
    /\ menu' = menu + 1
    /\ UNCHANGED <<startup, at, stopping, belief, chan, engine>>

\* Mutant: the hidden layer keeps the opacity it had.
StageCommandsBright ==
    LET next == (preset + 1) % PresetCount IN
    <<Active(Other[active], TRUE), Play(next, Other[active]), Swap(active, Other[active])>>

StageCommands ==
    LET next == (preset + 1) % PresetCount IN
    <<Active(Other[active], TRUE), SetOpacity(Other[active], "zero"),
      Play(next, Other[active]), Swap(active, Other[active])>>

StageNextFftVisual ==
    IF fading THEN UNCHANGED <<fading, pending, chan, spent>>
    ELSE \E ok \in BOOLEAN :
            /\ TryEach(StageCommands, ok)
            /\ fading' = ok
            /\ pending' = IF ok THEN (preset + 1) % PresetCount ELSE pending

\* Mutant: queued menu events are handled during the start as well.
HandleMenuEarly ==
    /\ at = "menu" /\ menu > 0
    /\ menu' = menu - 1
    /\ StageNextFftVisual
    /\ UNCHANGED <<startup, at, stopping, published, suppressed, active, preset, engine>>

HandleMenu ==
    /\ at = "menu" /\ menu > 0
    /\ menu' = menu - 1
    /\ IF NormalOperation THEN StageNextFftVisual
       ELSE UNCHANGED <<fading, pending, chan, spent>>
    /\ UNCHANGED <<startup, at, stopping, published, suppressed, active, preset, engine>>

PublishLayerStartupState ==
    /\ at = "menu" /\ menu = 0 /\ NormalOperation /\ ~layersSet
    /\ \E ok \in BOOLEAN :
          TryAll(<<Active("Fft", TRUE), Active("FftAlt", FALSE)>>, ok) /\ layersSet' = ok
    /\ UNCHANGED <<begun, gateOpen, mask, bringup, loop, belief, engine>>

\* handleFftVisuals up to its first publish: the flags are read here, the stop
\* command's callback may run before what was found due is published.
Proceeding == at = "menu" /\ menu = 0 /\ NormalOperation /\ layersSet /\ ~suppressed

\* Mutant: the preset index stays the old one.
CompleteFftOldPreset ==
    /\ Proceeding /\ published /\ fading
    /\ active' = Other[active] /\ fading' = FALSE
    /\ UNCHANGED <<startup, loop, published, suppressed, preset, pending, chan, engine, spent>>

CompleteFft ==
    /\ Proceeding /\ published /\ fading
    /\ active' = Other[active] /\ preset' = pending /\ fading' = FALSE
    /\ UNCHANGED <<startup, loop, published, suppressed, pending, chan, engine, spent>>

Due(what) ==
    /\ Proceeding
    /\ CASE what = "initial" -> ~published
         [] what = "dwell" -> published /\ ~fading /\ Quiet /\ spent.dwell < MaxDwells
         [] what = "refresh" -> published /\ ~fading /\ Quiet
    /\ at' = what
    /\ UNCHANGED <<startup, menu, stopping, belief, chan, engine, spent>>

\* Also when a stop came between the two flags.
PublishInitialFftVisual ==
    /\ at # "menu" /\ ~published
    /\ at' = "menu"
    /\ active' = "Fft" /\ preset' = 0 /\ pending' = 0 /\ fading' = FALSE
    /\ \E ok \in BOOLEAN :
          /\ TryAll(<<Active("Fft", TRUE), SetOpacity("Fft", "full"),
                      Active("FftAlt", FALSE), SetOpacity("FftAlt", "zero"),
                      Play(0, "Fft")>>, ok)
          /\ published' = ok
    /\ UNCHANGED <<startup, menu, stopping, suppressed, engine>>

\* Mutant: the preset after the last is not the first.
RotateNoWrap ==
    /\ at = "dwell"
    /\ at' = "menu"
    /\ Broadcast(StageCommands) /\ Spend("dwell")
    /\ fading' = TRUE /\ pending' = preset + 1
    /\ UNCHANGED <<startup, menu, stopping, published, suppressed, active, preset, engine>>

\* The dwell time of the preset has passed; a stage that fails is due again.
Rotate ==
    /\ at = "dwell"
    /\ at' = "menu"
    /\ \/ /\ Broadcast(StageCommands) /\ Spend("dwell")
          /\ fading' = TRUE /\ pending' = (preset + 1) % PresetCount
       \/ /\ TryEach(StageCommands, FALSE) /\ UNCHANGED <<fading, pending>>
    /\ UNCHANGED <<startup, menu, stopping, published, suppressed, active, preset, engine>>

\* Mutant: the hidden layer is refreshed.
RefreshHidden ==
    /\ at = "refresh"
    /\ at' = "menu"
    /\ \E ok \in BOOLEAN : TryEach(<<Play(preset, Other[active])>>, ok)
    /\ UNCHANGED <<startup, menu, stopping, belief, engine>>

Refresh ==
    /\ at = "refresh"
    /\ at' = "menu"
    /\ \E ok \in BOOLEAN : TryEach(<<Play(preset, active)>>, ok)
    /\ UNCHANGED <<startup, menu, stopping, belief, engine>>

\* A stop command is published somewhere: the GPUs get it, and so will the
\* master's own subscriber.
PublishStop(ls) ==
    /\ ~stopping /\ Spend("stop")
    /\ stopping' = TRUE
    /\ Broadcast(<<Stop(ls)>>)
    /\ UNCHANGED <<startup, at, menu, belief, engine>>

\* onAnimationStopEnvelope, in the runner's task.
OnAnimationStop ==
    /\ stopping /\ stopping' = FALSE
    /\ suppressed' = TRUE
    /\ IF suppressed THEN UNCHANGED <<published, fading>>
       ELSE published' = FALSE /\ fading' = FALSE
    /\ UNCHANGED <<startup, at, menu, active, preset, pending, chan, engine, spent>>

-----------------------------------------------------------------------------
(* A GPU: the enable subscriber and the animation engine's render task.    *)

Got(g, k) == chan[g] # <<>> /\ Head(chan[g]).kind = k
Take(g) == chan' = [chan EXCEPT ![g] = Tail(@)]

Lose(g) ==
    /\ chan[g] # <<>> /\ Head(chan[g]).kind \in Losable
    /\ Spend("loss") /\ Take(g)
    /\ UNCHANGED <<startup, loop, belief, engine>>

OnEnable(g) ==
    /\ Got(g, "enable") /\ Take(g)
    /\ gateOpen' = TRUE
    /\ UNCHANGED <<begun, mask, bringup, layersSet, loop, belief, engine, spent>>

\* Both layers of a fade are the FFT layers, so that either one touches it.
CancelFade(g) ==
    /\ cut' = [cut EXCEPT ![g] = @ \/ fade[g] # NoFade]
    /\ fade' = [fade EXCEPT ![g] = NoFade]

SetLayerActive(g) ==
    /\ Got(g, "active") /\ Take(g) /\ CancelFade(g)
    /\ enabled' = [enabled EXCEPT ![g][Head(chan[g]).layer] = Head(chan[g]).on]
    /\ UNCHANGED <<startup, loop, belief, opacity, playing, refused, spent>>

SetLayerOpacity(g) ==
    /\ Got(g, "opacity") /\ Take(g) /\ CancelFade(g)
    /\ opacity' = [opacity EXCEPT ![g][Head(chan[g]).layer] = Head(chan[g]).value]
    /\ UNCHANGED <<startup, loop, belief, enabled, playing, refused, spent>>

\* The request id belongs to the layer: an animation replaces the one before.
PlayAnimation(g) ==
    /\ Got(g, "play") /\ Take(g)
    /\ playing' = [playing EXCEPT ![g][Head(chan[g]).layer] = Head(chan[g]).preset]
    /\ UNCHANGED <<startup, loop, belief, enabled, opacity, fade, cut, refused, spent>>

StopAnimation(g) ==
    /\ Got(g, "stop") /\ Take(g)
    /\ playing' = [playing EXCEPT ![g] =
                     [l \in Layers |-> IF l \in Head(chan[g]).layers THEN None ELSE @[l]]]
    /\ UNCHANGED <<startup, loop, belief, enabled, opacity, fade, cut, refused, spent>>

\* The layer a swap starts from: the opacities decide, else who is enabled.
SwapSources(g) ==
    LET bright == {l \in Layers : opacity[g][l] = "full" /\ opacity[g][Other[l]] = "zero"}
        shown == {l \in Layers : enabled[g][l] /\ ~enabled[g][Other[l]]}
    IN  IF bright # {} THEN bright ELSE shown

StartLayerFadeSwap(g) ==
    /\ Got(g, "swap") /\ Take(g)
    /\ IF fade[g] # NoFade \/ SwapSources(g) = {}
       THEN /\ refused' = [refused EXCEPT ![g] = TRUE]
            /\ UNCHANGED <<enabled, opacity, fade>>
       ELSE \E from \in SwapSources(g) :
            /\ enabled' = [enabled EXCEPT ![g] = [l \in Layers |-> TRUE]]
            /\ opacity' = [opacity EXCEPT ![g] =
                             [l \in Layers |-> IF l = from THEN "full" ELSE "zero"]]
            /\ fade' = [fade EXCEPT ![g] = Other[from]]
            /\ UNCHANGED refused
    /\ UNCHANGED <<startup, loop, belief, playing, cut, spent>>

\* A frame during a fade: the rounded opacities reach 0 and 255 before its end.
UpdateFade(g) ==
    /\ fade[g] # NoFade
    /\ \/ /\ opacity[g][fade[g]] = "zero"
          /\ opacity' = [opacity EXCEPT ![g] = [l \in Layers |-> "part"]]
       \/ /\ opacity[g][fade[g]] # "full"
          /\ opacity' = [opacity EXCEPT ![g] =
                           [l \in Layers |-> IF l = fade[g] THEN "full" ELSE "zero"]]
    /\ UNCHANGED <<startup, loop, belief, chan, enabled, playing, fade, cut, refused, spent>>

CompleteLayerFadeSwap(g) ==
    /\ fade[g] # NoFade
    /\ LET to == fade[g] IN
        /\ opacity' = [opacity EXCEPT ![g] =
                         [l \in Layers |-> IF l = to THEN "full" ELSE "zero"]]
        /\ enabled' = [enabled EXCEPT ![g] = [l \in Layers |-> l = to]]
        /\ playing' = [playing EXCEPT ![g][Other[to]] = None]
    /\ fade' = [fade EXCEPT ![g] = NoFade]
    /\ UNCHANGED <<startup, loop, belief, chan, cut, refused, spent>>

Handle(g) ==
    \/ OnEnable(g) \/ SetLayerActive(g) \/ SetLayerOpacity(g)
    \/ PlayAnimation(g) \/ StopAnimation(g) \/ StartLayerFadeSwap(g)

-----------------------------------------------------------------------------
BringUp == MasterBegin \/ PublishEnable \/ PublishSweep \/ BootFinished

Work ==
    \/ HandleMenu \/ PublishLayerStartupState \/ CompleteFft
    \/ \E what \in {"initial", "refresh"} : Due(what)
    \/ PublishInitialFftVisual \/ Rotate \/ Refresh

Next ==
    \/ BringUp \/ Work \/ Due("dwell")
    \/ PressNext \/ OnAnimationStop
    \/ \E ls \in {Layers} \cup {{l} : l \in Layers} : PublishStop(ls)
    \/ \E g \in GPU : Begin(g) \/ Announce(g)
    \/ \E g \in Observed :
          Lose(g) \/ Handle(g) \/ UpdateFade(g) \/ CompleteLayerFadeSwap(g)

Spec == Init /\ [][Next]_vars

\* Every node's loop and the runner's task keep running, and each GPU renders.
\* Nothing makes a user press a button or the master rotate.
Fairness ==
    /\ WF_vars(BringUp) /\ WF_vars(Work) /\ WF_vars(OnAnimationStop)
    /\ \A g \in GPU : WF_vars(Begin(g)) /\ WF_vars(Announce(g))
    /\ \A g \in Observed : WF_vars(Handle(g)) /\ WF_vars(CompleteLayerFadeSwap(g))

FairSpec == Spec /\ Fairness

-----------------------------------------------------------------------------
(* Properties.                                                             *)

Lit(g) == {l \in Layers : enabled[g][l] /\ opacity[g][l] # "zero"}

\* GPU g shows what the master believes it shows.
Showing(g) ==
    /\ Lit(g) = {active} /\ opacity[g][active] = "full"
    /\ playing[g][active] = preset

\* The gate is opened only when every GPU's local output is initialised.
GateAfterReady == gateOpen => begun = GPU

\* Until the boot animation has ended no GPU is sent, or shows, an FFT visual,
\* whatever was selected in the menu during the start.
HeldUntilBooted ==
    \A g \in Observed :
        (\/ \E i \in DOMAIN chan[g] : chan[g][i].kind \in {"play", "swap"}
         \/ \E l \in Layers : playing[g][l] # None) => NormalOperation

\* While no publish fails a GPU accepts every fade swap until the show is
\* stopped, whatever play commands are lost, unless a fade was cut short: then the user
\* asked for the next visual between the end of the fade on the master's clock and
\* its end on the GPU, or when the boot animation had just ended, so that the fade
\* was staged before the initial visual and is ended by it.
RefusedOnlyAfterCut ==
    \A g \in Observed :
        refused[g] => cut[g] \/ suppressed \/ stopping \/ spent.failure > 0

\* When everything has arrived and no fade runs, each GPU shows the master's
\* preset on the master's active layer and nothing on the other, although the
\* master never reads it back, any publish may fail half-way through a stage
\* and the presets were selected in any order.
Agreement ==
    \A g \in Observed :
        (/\ chan[g] = <<>> /\ fade[g] = NoFade /\ at = "menu"
         /\ published /\ ~fading /\ ~suppressed /\ ~stopping
         /\ spent.loss = 0 /\ ~cut[g]) => Showing(g)

\* The gate is opened in the end.  And the periodic refresh repairs what a lost
\* play command did, and the retries what a publish that failed did, together
\* too: in the end each GPU shows the master's preset for good, unless the show
\* was stopped or a fade was cut.
Repaired == <>gateOpen /\ \A g \in Observed : <>[](Showing(g) \/ suppressed \/ cut[g])
=============================================================================
