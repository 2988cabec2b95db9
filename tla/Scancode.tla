------------------------------ MODULE Scancode ------------------------------
(***************************************************************************)
(* The decoder of scan codes (410kern/x86/keyhelp.c), which the keyboard   *)
(* interrupt calls with every byte the keyboard sends, and the keyboard,   *)
(* as that file expects it: which bytes a key sends when it is pressed,    *)
(* repeated and released.                                                  *)
(*                                                                         *)
(* A character is the code of its key and which of the key's characters it *)
(* is.  It has reached the buffer when process_scancode returns it with    *)
(* HASDATA and without MAKE.  Raw codes are left out: the kernel does not  *)
(* look at them.                                                           *)
(***************************************************************************)
EXTENDS Integers, Sequences, SequencesExt, FiniteSets, TLC

CONSTANTS Keys,      \* the keys of the keyboard, each the bytes it sends when pressed
          MaxDown    \* bound on the number of keys held down together

VARIABLES key_state,             \* modifiers and locks
          key_internal_state,    \* which kinds of sequence are being scanned
          key_sequence,          \* stage of a pause sequence
          down, locks,           \* keys held down, locks switched on
          wire,                  \* bytes of the last key event not read yet
          due, decoded             \* what that event should deliver and has delivered

decoder == <<key_state, key_internal_state, key_sequence>>
scancodeVars == <<decoder, down, locks, wire, due, decoded>>

PrintScreen == <<\hE0, \h2A, \hE0, \h37>>
Pause == <<\hE1, \h1D, \h45, \hE1, \h9D, \hC5>>

ScancodeInit ==
    /\ key_state = {} /\ key_internal_state = {} /\ key_sequence = 0
    /\ down = {} /\ locks = {}
    /\ wire = <<>> /\ due = <<>> /\ decoded = <<>>
-----------------------------------------------------------------------------
(* The tables of process_simple_scan and process_extended_scan.            *)
SHIFT == {\h02, \h04, \h05, \h06, \h08, \h09, \h0A, \h0B, \h0D,
          \h27, \h28, \h29, \h33, \h34, \h35}
SHIFTCTL == {\h03, \h07, \h0C, \h2B}
SHIFTCAPSCTL == \h10..\h1B \cup \h1E..\h26 \cup \h2C..\h32
Unchanging == {\h01, \h0E, \h0F, \h1C, \h37, \h39} \cup \h3B..\h44 \cup \h47..\h53 \cup {\h57, \h58}

SimpleHeld == \h1D :> "LCONTROL" @@ \h2A :> "LSHIFT" @@ \h36 :> "RSHIFT" @@ \h38 :> "LALT"
SimpleLock == \h3A :> "CAPS" @@ \h45 :> "NUM"
ExtendedHeld == \h1D :> "RCONTROL" @@ \h38 :> "RALT"
ExtendedChar == {\h1C, \h35, \h48, \h4B, \h4D, \h50, \h53}

(* The macros KHS_SHIFT, KHS_SHIFTCTL and KHS_SHIFTCAPSCTL, for modifiers  *)
(* and locks m.                                                            *)
shift(m) == m \cap {"LSHIFT", "RSHIFT"} # {}
ctl(m) == m \cap {"LCONTROL", "RCONTROL"} # {}

character(c, m) ==
    CASE c \in SHIFTCTL \cup SHIFTCAPSCTL /\ ctl(m)              -> "ctl"
      [] c \in SHIFT \cup SHIFTCTL /\ shift(m)                   -> "shifted"
      [] c \in SHIFTCAPSCTL /\ (shift(m) # ("CAPS" \in m))       -> "shifted"
      [] OTHER                                                   -> "plain"
-----------------------------------------------------------------------------
(* process_scancode.                                                       *)
pressed(b) == b < \h80
code(b) == b % \h80

Data(b, c) == decoded' = IF pressed(b) THEN decoded ELSE Append(decoded, c)

hold(b, m) == key_state' = IF pressed(b) THEN key_state \cup {m} ELSE key_state \ {m}

toggle(b, m) ==
    key_state' = CASE ~pressed(b)      -> key_state
                   [] m \in key_state  -> key_state \ {m}
                   [] OTHER            -> key_state \cup {m}

bytes_without_release == <<\h1D, \h45, \hE1>>   \* fault: control's release is not expected

PauseByte == <<\h1D, \h45, \hE1, \h9D>>    \* what stages 0 to 3 of a pause sequence expect

Expected(b) ==
    /\ "PAUSE" \in key_internal_state
    /\ key_sequence + 1 \in DOMAIN PauseByte /\ b = PauseByte[key_sequence + 1]

Completed(b) == "PAUSE" \in key_internal_state /\ key_sequence = 4 /\ b = \hC5

PrintScans == {"PRSCR_UP", "PRSCR_DOWN"}

extended_prefix(b) ==
    /\ b = \hE0
    /\ key_internal_state' = key_internal_state \cup {"EXTENDED"}
    /\ UNCHANGED <<key_state, key_sequence, decoded>>

pause_start(b) ==
    /\ code(b) = \h61 /\ "PAUSE" \notin key_internal_state
    /\ key_internal_state' = (key_internal_state \ PrintScans) \cup {"PAUSE"}
    /\ key_sequence' = 0
    /\ UNCHANGED <<key_state, decoded>>

pause_stage(b) ==
    /\ Expected(b)
    /\ key_internal_state' = key_internal_state \ (IF b = \h9D THEN {} ELSE PrintScans)
    /\ key_sequence' = key_sequence + 1
    /\ UNCHANGED <<key_state, decoded>>

pause_end(b) ==
    /\ Completed(b)
    /\ key_internal_state' = key_internal_state \ {"PAUSE"}
    /\ Data(b, "pause")
    /\ UNCHANGED <<key_state, key_sequence>>

process_simple_scan(b) ==
    /\ IF code(b) \in {\h1D, \h45, \h61}
       THEN /\ key_internal_state' = key_internal_state \ (PrintScans \cup {"PAUSE"})
            /\ key_sequence' = 0
       ELSE /\ key_internal_state' = key_internal_state \ PrintScans
            /\ UNCHANGED key_sequence
    /\ \/ code(b) \in DOMAIN SimpleHeld /\ hold(b, SimpleHeld[code(b)]) /\ UNCHANGED decoded
       \/ code(b) \in DOMAIN SimpleLock /\ toggle(b, SimpleLock[code(b)]) /\ UNCHANGED decoded
       \/ /\ code(b) \in SHIFT \cup SHIFTCTL \cup SHIFTCAPSCTL \cup Unchanging
          /\ Data(b, <<code(b), character(code(b), key_state)>>)
          /\ UNCHANGED key_state
       \/ /\ code(b) \notin DOMAIN SimpleHeld \cup DOMAIN SimpleLock
                            \cup SHIFT \cup SHIFTCTL \cup SHIFTCAPSCTL \cup Unchanging
          /\ UNCHANGED <<key_state, decoded>>

(* Print screen sends two extended codes each time.  A first one is only   *)
(* remembered, a second one gives the character.                           *)
print_scan(b, wait, clear) ==
    /\ key_internal_state' = (key_internal_state \ {"EXTENDED", clear})
                              \cup (IF clear \in key_internal_state THEN {} ELSE {wait})
    /\ IF clear \in key_internal_state THEN Data(b, "print screen") ELSE UNCHANGED decoded
    /\ UNCHANGED key_state

process_extended_scan(b) ==
    /\ UNCHANGED key_sequence
    /\ \/ code(b) = \h2A /\ print_scan(b, "PRSCR_DOWN", "PRSCR_UP")
       \/ code(b) = \h37 /\ print_scan(b, "PRSCR_UP", "PRSCR_DOWN")
       \/ /\ code(b) \notin {\h2A, \h37}
          /\ key_internal_state' = key_internal_state \ {"EXTENDED"}
          /\ \/ /\ code(b) \in DOMAIN ExtendedHeld
                /\ hold(b, ExtendedHeld[code(b)]) /\ UNCHANGED decoded
             \/ code(b) \in ExtendedChar /\ Data(b, <<\hE0, code(b)>>) /\ UNCHANGED key_state
             \/ /\ code(b) \notin DOMAIN ExtendedHeld \cup ExtendedChar
                /\ UNCHANGED <<key_state, decoded>>

InSequence(b) ==
    \/ b = \hE0
    \/ code(b) = \h61 /\ "PAUSE" \notin key_internal_state
    \/ Expected(b) \/ Completed(b)

process_scancode(b) ==
    \/ "EXTENDED" \in key_internal_state /\ process_extended_scan(b)
    \/ /\ "EXTENDED" \notin key_internal_state
       /\ \/ extended_prefix(b) \/ pause_start(b) \/ pause_stage(b) \/ pause_end(b)
          \/ ~InSequence(b) /\ process_simple_scan(b)

interrupt_reads ==
    /\ wire # <<>>
    /\ process_scancode(Head(wire))
    /\ wire' = Tail(wire)
    /\ UNCHANGED <<down, locks, due>>
-----------------------------------------------------------------------------
(* The keyboard.  It sends the bytes of one key event after another, so    *)
(* nothing is lost by waiting until those of the last one have been read.  *)
(* A lock key changes its lock when it goes down, and again each time it   *)
(* repeats: process_simple_scan toggles on every make byte.  Pause is sent *)
(* as a whole when the key goes down, and does not repeat.                 *)
LockOf(k) == IF Len(k) = 1 /\ k[1] \in DOMAIN SimpleLock THEN {SimpleLock[k[1]]} ELSE {}
HeldOf(k) ==
    CASE Len(k) = 1 /\ k[1] \in DOMAIN SimpleHeld                  -> {SimpleHeld[k[1]]}
      [] Len(k) = 2 /\ k[2] \in DOMAIN ExtendedHeld                -> {ExtendedHeld[k[2]]}
      [] OTHER                                                     -> {}

switched(k) == (locks \cup LockOf(k)) \ (locks \cap LockOf(k))

(* Print screen repeats with all its bytes or with the last code only.     *)
Repeats(k) == IF k = PrintScreen THEN {k, SubSeq(k, 3, 4)} ELSE {k}

Release(k) ==
    CASE k = PrintScreen -> <<\hE0, \hB7, \hE0, \hAA>>
      [] Len(k) = 1      -> <<k[1] + \h80>>
      [] Len(k) = 2      -> <<k[1], k[2] + \h80>>

modifiers == locks \cup UNION {HeldOf(k) : k \in down}

CharacterOf(k) ==
    CASE k = PrintScreen                               -> <<"print screen">>
      [] LockOf(k) \cup HeldOf(k) # {}                 -> <<>>
      [] Len(k) = 1 /\ k[1] \in SHIFTCAPSCTL \cup SHIFTCTL /\ ctl(modifiers) -> <<<<k[1], "ctl">>>>
      [] Len(k) = 1 /\ k[1] \in SHIFTCAPSCTL           ->
            <<<<k[1], IF shift(modifiers) # ("CAPS" \in locks) THEN "shifted" ELSE "plain">>>>
      [] Len(k) = 1 /\ k[1] \in SHIFT \cup SHIFTCTL    ->
            <<<<k[1], IF shift(modifiers) THEN "shifted" ELSE "plain">>>>
      [] Len(k) = 1 /\ k[1] \in Unchanging             -> <<<<k[1], "plain">>>>
      [] Len(k) = 2 /\ k[2] \in ExtendedChar           -> <<<<\hE0, k[2]>>>>
      [] OTHER                                         -> <<>>

Sends(bytes, chars) ==
    /\ wire = <<>>
    /\ wire' = bytes
    /\ due' = chars /\ decoded' = <<>>
    /\ UNCHANGED decoder

press(k) ==
    /\ k \notin down \cup {Pause} /\ Cardinality(down) < MaxDown
    /\ Sends(k, <<>>)
    /\ down' = down \cup {k}
    /\ locks' = switched(k)

press_pause ==
    /\ Pause \in Keys
    /\ Sends(Pause, <<"pause">>)
    /\ UNCHANGED <<down, locks>>

repeat(k) ==
    /\ k \in down
    /\ \E bytes \in Repeats(k) : Sends(bytes, <<>>)
    /\ locks' = switched(k)
    /\ UNCHANGED down

release_key(k) ==
    /\ k \in down
    /\ Sends(Release(k), CharacterOf(k))
    /\ down' = down \ {k}
    /\ UNCHANGED locks

ScancodeNext ==
    \/ interrupt_reads
    \/ press_pause
    \/ \E k \in Keys : press(k) \/ repeat(k) \/ release_key(k)

ScancodeSpec == ScancodeInit /\ [][ScancodeNext]_scancodeVars
-----------------------------------------------------------------------------
(* Each key gives exactly its character when it is released (the pause key *)
(* when it is pressed), the one that the modifier keys held down and the   *)
(* locks then select, and the modifiers, the locks and a key that is       *)
(* pressed or repeated give none: whatever sequences of one, two, four and *)
(* six bytes came before it, and with no byte of them taken for a key.     *)
(* Between two keys the decoder's modifiers are the modifier keys held     *)
(* down and the locks, each changed once by every press and every repeat   *)
(* of its key: neither print screen, whose bytes contain a shift, nor      *)
(* pause, whose bytes contain a control and a num lock, presses or         *)
(* releases one of them.                                                   *)
KeyGivesItsCharacter == wire = <<>> => decoded = due /\ key_state = modifiers
=============================================================================
