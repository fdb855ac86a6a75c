------------------------------ MODULE Keyboard ------------------------------
(***************************************************************************)
(* The keyboard of lab 4 (k-hardware.cc): keyboard_readc, which decodes    *)
(* one scan code at a time, and check_keyboard, against the keys that are  *)
(* really held down when a key is pressed.  The controller keeps the bytes *)
(* in a queue; a byte is <<"e0">> or <<"press" or "release", key>>.        *)
(***************************************************************************)
EXTENDS Integers, Sequences, FiniteSets

CONSTANTS
  KeySet,               \* the keys that are used
  MaxBytes,             \* bound: scan codes that wait
  MaxHeld               \* bound: keys held down at a time

VARIABLES
  held, caps,           \* the keys held down; the caps lock
  bytes,                \* scan codes in the controller
  modifiers, last_escape,
  typed,                \* the characters that the keys not yet read stand for
  last,                 \* what keyboard_readc has returned: [char, want]
  mode                  \* "on", "off" or "reboot"

vars == <<held, caps, bytes, modifiers, last_escape, typed, last, mode>>

Letters == {"a", "c", "f", "e", "q"} \cap KeySet
Modifier == [k \in {"shift", "ctrl", "rctrl", "caps"} |->
               CASE k = "shift" -> "SHIFT" [] k = "caps" -> "CAPSLOCK" [] OTHER -> "CONTROL"]
IsModifier(k) == k \in DOMAIN Modifier
Extended == {"up", "rctrl"} \cap KeySet       \* keys with an 0xE0 before their code

\* keymap: which key a code means, after an escape or not.  With shift held, the
\* keyboard puts a shift release with an escape before the codes of `up'.
keymap(k, escape) == IF escape = (k \in Extended) THEN k ELSE "none"

\* complex_keymap["1"] and the letters
Char(k, mods) ==
  IF k \in Letters
    THEN IF "CONTROL" \in mods THEN <<"control", k>>
         ELSE IF ("SHIFT" \in mods) # ("CAPSLOCK" \in mods) THEN <<"upper", k>>
         ELSE <<"lower", k>>
  ELSE IF k = "1"
    THEN IF "CONTROL" \in mods THEN <<"0">>
         ELSE IF "SHIFT" \in mods THEN <<"upper", k>> ELSE <<"lower", k>>
  ELSE IF k = "up" THEN <<"lower", k>> ELSE <<"0">>

Init ==
  /\ held = {} /\ caps = FALSE /\ bytes = << >>
  /\ modifiers = {} /\ last_escape = FALSE
  /\ typed = << >> /\ last = [char |-> <<"0">>, want |-> <<"0">>] /\ mode = "on"

-----------------------------------------------------------------------------
(* The user and the keyboard.                                              *)

HeldMods == {Modifier[k] : k \in {h \in held : IsModifier(h) /\ h # "caps"}}
            \cup (IF caps THEN {"CAPSLOCK"} ELSE {})

Code(kind, k) ==
  (IF k = "up" /\ "shift" \in held THEN <<<<"e0">>, <<"release", "shift">>>> ELSE << >>)
  \o (IF k \in Extended THEN <<<<"e0">>>> ELSE << >>) \o <<<<kind, k>>>>

Press(k) ==
  /\ mode = "on" /\ k \notin held /\ Cardinality(held) < MaxHeld
  /\ Len(bytes \o Code("press", k)) <= MaxBytes
  /\ held' = held \cup {k}
  /\ caps' = (IF k = "caps" THEN ~caps ELSE caps)
  /\ bytes' = bytes \o Code("press", k)
  /\ typed' = IF Char(k, HeldMods) = <<"0">> THEN typed ELSE Append(typed, Char(k, HeldMods))
  /\ UNCHANGED <<modifiers, last_escape, last, mode>>

Release(k) ==
  /\ mode = "on" /\ k \in held
  /\ Len(bytes \o Code("release", k)) <= MaxBytes
  /\ held' = held \ {k}
  /\ bytes' = bytes \o Code("release", k)
  /\ UNCHANGED <<caps, modifiers, last_escape, typed, last, mode>>

-----------------------------------------------------------------------------
(* keyboard_readc and check_keyboard.                                      *)

\* a release matters only for modifier keys
released(k) ==
  IF IsModifier(keymap(k, last_escape)) /\ k # "caps" THEN modifiers \ {Modifier[k]} ELSE modifiers

\* mutant: the lock is set at every press
pressed_set(k) == IF IsModifier(keymap(k, last_escape)) THEN modifiers \cup {Modifier[k]} ELSE modifiers

pressed(k) ==
  IF ~IsModifier(keymap(k, last_escape)) THEN modifiers
  ELSE IF k = "caps" /\ "CAPSLOCK" \in modifiers THEN modifiers \ {"CAPSLOCK"}
  ELSE modifiers \cup {Modifier[k]}

Readc(b) ==
  IF b[1] = "press" THEN Char(keymap(b[2], last_escape), modifiers) ELSE <<"0">>

Command(c) ==
  IF c \in {<<"lower", k>> : k \in {"a", "f", "e"}} THEN "reboot"
  ELSE IF c \in {<<"control", "c">>, <<"lower", "q">>} THEN "off" ELSE "on"

check_keyboard ==
  /\ mode = "on" /\ bytes # << >>
  /\ LET b == Head(bytes)
         c == Readc(b)
     IN /\ bytes' = Tail(bytes)
        /\ last_escape' = (b = <<"e0">>)
        /\ modifiers' = CASE b[1] = "e0" -> modifiers
                          [] b[1] = "press" -> pressed(b[2])
                          [] b[1] = "release" -> released(b[2])
        /\ IF c = <<"0">> THEN UNCHANGED <<typed, last>>
           ELSE /\ last' = [char |-> c, want |-> IF typed = << >> THEN <<"0">> ELSE Head(typed)]
                /\ typed' = IF typed = << >> THEN typed ELSE Tail(typed)
        /\ mode' = Command(c)
  /\ UNCHANGED <<held, caps>>

Next ==
  \/ \E k \in KeySet : Press(k) \/ Release(k)
  \/ check_keyboard

\* the kernel polls at every timer interrupt, and all the time when it spins
Spec == Init /\ [][Next]_vars /\ WF_vars(check_keyboard)

-----------------------------------------------------------------------------
(* Properties.                                                             *)

\* Every character that is read is the one that was typed: the key with the
\* modifier keys that were held when it was pressed, in the order of the presses,
\* whatever escapes, releases and fake shifts come between.
ReadsTyped == last.char = last.want

\* With nothing left to read, the kernel knows which modifier keys are down.
ModifiersKnown == bytes = << >> => modifiers = HeldMods /\ typed = << >>

\* Control-C or q typed turns the machine off, unless a key before it has.
QuitWorks ==
  \A c \in {<<"control", "c">>, <<"lower", "q">>} :
    (typed # << >> /\ typed[Len(typed)] = c) ~> (mode # "on")
=============================================================================
