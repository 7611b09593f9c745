------------------------------ MODULE Hotkeys ------------------------------
(***************************************************************************)
(* The hotkey registry of Praxis (hotkey.c), the texts it keeps bindings   *)
(* as in Praxis.ini, and the settings dialog (dialogs/hotkey_settings.c),  *)
(* which gives all hotkeys back to the system while it is open and         *)
(* registers them again when it closes.  Other programs take and release   *)
(* keys at any time.                                                       *)
(*                                                                         *)
(* A key stands for a combination, modifiers included; its text is the     *)
(* name that hotkey_to_string gives it, if it has one.                     *)
(***************************************************************************)
EXTENDS Integers

CONSTANTS
  Last,     \* HOTKEY_LAST: the hotkeys are numbered from 1, in the order of registration
  Keys,     \* the key combinations
  Named,    \* those that hotkey_to_string has a name for: letters, F keys, arrows
  Slash,    \* the key that VkKeyScanW gives for a question mark
  Unreadable, \* what hotkey_parse_string refuses: "F13", names it does not know, and the
              \* characters, "?" or a letter maybe, that the keyboard layout has no key for;
              \* the layout stays the same
  Shown,    \* what a HOTKEY control makes of a combination: it knows no Windows key
  Default,  \* the default bindings
  InitInis, \* the bindings a Praxis.ini may hold, edited by hand or not
  None,     \* no key, an empty text
  MaxGrabs, \* bounds the keys that other programs take
  MaxEdits  \* bounds the changes in the dialog

Actions  == 1 .. Last
Question == "?"
Texts    == Keys \cup Unreadable \cup {Question, None}
Bindings == [Actions -> Keys \cup {None}]

ASSUME HotkeysAssumption ==
  /\ Last \in Nat \ {0}
  /\ Named \subseteq Keys /\ Slash \in Keys /\ Question \notin Keys
  /\ None \notin Keys \cup Unreadable \cup {Question} \cup Nat
  /\ Shown \in [Keys -> Keys] /\ Default \in [Actions -> Named]
  /\ InitInis \subseteq [Actions -> Texts] /\ {MaxGrabs, MaxEdits} \subseteq Nat

VARIABLES
  stage,     \* "off", "register", "main", or "dialog"
  next, ok,  \* while registering: the next action, whether all went well so far
  config,    \* praxis_config: a text per action
  ini,       \* what Praxis.ini holds of it
  bound,     \* g_bindings and g_registered: the key of an action, or None
  system,    \* who gets a key: an action, another program (0), or None
  controls,  \* the HOTKEY controls of the dialog
  warned,    \* whether the last OK reported a conflict
  grabs, edits,
  refused,   \* history: the actions whose key another program had when they were registered
  chosen     \* history: the controls at the last OK in this session, or None

keyVars == <<stage, next, ok, config, ini, bound, system, controls, warned, grabs, edits, refused,
             chosen>>

Other == 0

Unbound == [a \in Actions |-> None]

-----------------------------------------------------------------------------
(***************************************************************************)
(* Texts and keys.  A text may have been written by hand: a digit has no   *)
(* name, yet its text is read; a letter has one, yet may not be.           *)
(***************************************************************************)
Parses(t)   == t \notin Unreadable \cup {None}
Parse(t)    == IF t = Question THEN Slash ELSE t
ControlOf(t) == IF Parses(t) THEN Shown[Parse(t)] ELSE None
hotkey_to_string(k) == IF k = None THEN None ELSE IF k \in Named THEN k ELSE Question

(***************************************************************************)
(* The registry as a record, and what hotkey_register, hotkey_unregister   *)
(* and hotkey_unregister_all make of it.                                   *)
(***************************************************************************)
Registry == [bound |-> bound, system |-> system]

Becomes(g) == bound' = g.bound /\ system' = g.system

Unregister(g, a) ==
  IF g.bound[a] = None THEN g
  ELSE [bound  |-> [g.bound EXCEPT ![a] = None],
        system |-> [k \in Keys |-> IF g.system[k] = a THEN None ELSE g.system[k]]]

Free(g, k) == g.system[k] = None

Register(g, a, k) ==
  LET h == Unregister(g, a) IN
  IF Free(h, k) THEN [bound  |-> [h.bound EXCEPT ![a] = k], system |-> [h.system EXCEPT ![k] = a]]
                ELSE h

\* A wrong version of UnregisterAll: the system keeps the keys.
UnregisterAllLocally(g) == [g EXCEPT !.bound = Unbound]

UnregisterAll(g) ==
  [bound  |-> Unbound,
   system |-> [k \in Keys |-> IF g.system[k] \in Actions /\ g.bound[g.system[k]] # None
                                THEN None ELSE g.system[k]]]

-----------------------------------------------------------------------------
(***************************************************************************)
(* register_hotkeys, hk_reregister_all: one call of RegisterHotKey after   *)
(* the other, between which other programs take and release keys and       *)
(* Praxis may be killed.                                                   *)
(***************************************************************************)
BeginRegistering ==
  /\ stage' = "register" /\ next' = 1 /\ ok' = TRUE
  /\ refused' = {} /\ warned' = FALSE

Start ==
  /\ stage = "off" /\ BeginRegistering
  /\ config' = ini /\ bound' = Unbound
  /\ chosen' = None
  /\ UNCHANGED <<ini, system, controls, grabs, edits>>

\* A wrong version of RegisterNext: the first conflict ends it ("ok = ok && ...").
RegisterNextUntilConflict ==
  /\ stage = "register" /\ next \in Actions /\ next' = next + 1
  /\ LET k == Parse(config[next]) IN
       \/ /\ Parses(config[next]) /\ ok
          /\ Becomes(Register(Registry, next, k))
          /\ ok' = (bound'[next] = k)
          /\ refused' = IF system[k] = Other THEN refused \cup {next} ELSE refused
       \/ /\ ~(Parses(config[next]) /\ ok)
          /\ UNCHANGED <<bound, system, ok, refused>>
  /\ UNCHANGED <<stage, config, ini, controls, warned, grabs, edits, chosen>>

RegisterNext ==
  /\ stage = "register" /\ next \in Actions /\ next' = next + 1
  /\ LET k == Parse(config[next]) IN
       \/ /\ Parses(config[next])
          /\ Becomes(Register(Registry, next, k))
          /\ ok' = (ok /\ bound'[next] = k)
          /\ refused' = IF system[k] = Other THEN refused \cup {next} ELSE refused
       \/ /\ ~Parses(config[next])
          /\ UNCHANGED <<bound, system, ok, refused>>
  /\ UNCHANGED <<stage, config, ini, controls, warned, grabs, edits, chosen>>

\* After OK a conflict is reported; after Cancel, or at the start, it is not.
Registered ==
  /\ stage = "register" /\ next > Last /\ stage' = "main"
  /\ warned' = (chosen # None /\ ~ok)
  /\ UNCHANGED <<next, ok, config, ini, bound, system, controls, grabs, edits, refused, chosen>>

(***************************************************************************)
(* dialog_hotkey_settings_show.                                            *)
(***************************************************************************)
OpenDialog ==
  /\ stage = "main" /\ stage' = "dialog"
  /\ Becomes(UnregisterAll(Registry))
  /\ controls' = [a \in Actions |-> ControlOf(config[a])]
  /\ UNCHANGED <<next, ok, config, ini, warned, grabs, edits, refused, chosen>>

SetControls(c) ==
  /\ stage = "dialog" /\ edits < MaxEdits /\ edits' = edits + 1
  /\ controls' = c
  /\ UNCHANGED <<stage, next, ok, config, ini, bound, system, warned, grabs, refused, chosen>>

ResetDefaults == SetControls([a \in Actions |-> ControlOf(Default[a])])
SetControl(a, k) == SetControls([controls EXCEPT ![a] = k])

(* IDOK: the store is saved, which may fail unnoticed, and the hotkeys are *)
(* registered again.                                                       *)
Ok(saved) ==
  /\ stage = "dialog" /\ BeginRegistering
  /\ config' = [a \in Actions |-> hotkey_to_string(controls[a])]
  /\ ini' = IF saved THEN config' ELSE ini
  /\ Becomes(UnregisterAll(Registry))
  /\ chosen' = controls /\ controls' = Unbound
  /\ UNCHANGED <<grabs, edits>>

\* IDCANCEL: the same, from the old configuration.
Cancel ==
  /\ stage = "dialog" /\ BeginRegistering
  /\ Becomes(UnregisterAll(Registry))
  /\ controls' = Unbound /\ chosen' = None
  /\ UNCHANGED <<config, ini, grabs, edits>>

(* WM_CLOSE saves the store and gives the hotkeys back; when the process   *)
(* is killed the system takes them back.                                   *)
Stop(saved) ==
  /\ stage = "main" /\ stage' = "off"
  /\ ini' = IF saved THEN config ELSE ini
  /\ Becomes(UnregisterAll(Registry))
  /\ warned' = FALSE /\ chosen' = None /\ refused' = {}
  /\ UNCHANGED <<next, ok, config, controls, grabs, edits>>

Killed ==
  /\ stage # "off" /\ stage' = "off"
  /\ bound' = Unbound
  /\ system' = [k \in Keys |-> IF system[k] \in Actions THEN None ELSE system[k]]
  /\ controls' = Unbound /\ warned' = FALSE /\ chosen' = None /\ refused' = {}
  /\ UNCHANGED <<next, ok, config, ini, grabs, edits>>

Grab(k) ==
  /\ system[k] = None /\ grabs < MaxGrabs /\ grabs' = grabs + 1
  /\ system' = [system EXCEPT ![k] = Other]
  /\ UNCHANGED <<stage, next, ok, config, ini, bound, controls, warned, edits, refused, chosen>>

Release(k) ==
  /\ system[k] = Other
  /\ system' = [system EXCEPT ![k] = None]
  /\ UNCHANGED <<stage, next, ok, config, ini, bound, controls, warned, grabs, edits, refused, chosen>>

HotkeysInit ==
  /\ stage = "off" /\ ini \in InitInis /\ config = ini
  /\ next = 1 /\ ok = TRUE
  /\ bound = Unbound /\ system = [k \in Keys |-> None]
  /\ controls = Unbound
  /\ warned = FALSE /\ grabs = 0 /\ edits = 0 /\ refused = {} /\ chosen = None

HotkeysNext ==
  \/ Start \/ RegisterNext \/ Registered
  \/ OpenDialog
  \/ ResetDefaults
  \/ \E a \in Actions, k \in {Shown[j] : j \in Keys} \cup {None} : SetControl(a, k)
  \/ \E saved \in BOOLEAN : Ok(saved)
  \/ Cancel
  \/ \E saved \in BOOLEAN : Stop(saved)
  \/ Killed
  \/ \E k \in Keys : Grab(k)
  \/ \E k \in Keys : Release(k)

HotkeysSpec == HotkeysInit /\ [][HotkeysNext]_keyVars

-----------------------------------------------------------------------------
(***************************************************************************)
(* Every variable keeps its shape.                                         *)
(***************************************************************************)
HotkeysTypeOK ==
  /\ stage \in {"off", "register", "main", "dialog"}
  /\ next \in 1 .. Last + 1 /\ ok \in BOOLEAN
  /\ config \in [Actions -> Texts] /\ ini \in [Actions -> Texts]
  /\ bound \in Bindings /\ system \in [Keys -> Actions \cup {Other, None}]
  /\ controls \in Bindings /\ chosen \in Bindings \cup {None}
  /\ warned \in BOOLEAN /\ grabs \in 0 .. MaxGrabs /\ edits \in 0 .. MaxEdits
  /\ refused \subseteq Actions

(***************************************************************************)
(* The registry and the system agree on which action has which key, no     *)
(* two actions have the same one, and none has any while the dialog is     *)
(* open or Praxis is not running (hotkey_register, hotkey_unregister_all). *)
(***************************************************************************)
RegistryIsSystem ==
  /\ \A a \in Actions, k \in Keys : bound[a] = k <=> system[k] = a
  /\ stage \in {"off", "dialog"} => \A a \in Actions : bound[a] = None

(***************************************************************************)
(* Once the hotkeys are registered, by the start, by OK or by Cancel, what *)
(* is in force is what is configured; a configured hotkey is missing only  *)
(* because another program had its key when its turn came, or an action    *)
(* before it has it; and after OK the user was told exactly if one is.  A  *)
(* text that does not parse configures none: it is left out in silence.    *)
(***************************************************************************)
Missing(a) == Parses(config[a]) /\ bound[a] = None

MissingAreAccountedFor ==
  stage = "main" =>
    /\ \A a \in Actions : bound[a] # None => Parses(config[a]) /\ bound[a] = Parse(config[a])
    /\ \A a \in Actions : Missing(a) =>
         a \in refused \/ \E b \in 1 .. a - 1 : bound[b] = Parse(config[a])
    /\ chosen # None => (warned <=> \E a \in Actions : Missing(a))

(***************************************************************************)
(* What the user chose in the dialog is what is in force after OK.         *)
(***************************************************************************)
ChosenKeysFire ==
  stage = "main" /\ chosen # None =>
    \A a \in Actions : bound[a] \in {chosen[a], None}
=============================================================================
