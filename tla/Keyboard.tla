------------------------------- MODULE Keyboard -------------------------------
(* kbdgetc() of kbd.c turns the scan codes of the keyboard into characters    *)
(* and keeps the modifiers and the E0 escape from one byte to the next.  The  *)
(* keyboard itself, which sends the codes, is external: some keys of every    *)
(* class of the tables of kbd.h, with the codes a PC keyboard has for them.   *)
EXTENDS Integers, Sequences, FiniteSets, SequencesExt

CONSTANTS MaxKeys,  \* bounds: presses and releases,
          MaxCodes  \* and bytes the controller holds

ASSUME KeyboardAssumption == MaxKeys \in Nat /\ MaxCodes \in Nat

VARIABLES
  shift,   \* the static variable of kbdgetc(), a set of bits
  port,    \* bytes that wait at KBDATAP
  chars,   \* history: the characters consoleintr() got,
  held,    \* keys that are down,
  caps,    \* whether Caps Lock is on,
  twice,   \* whether both keys of a modifier were ever down at a time,
  meant,   \* and what was typed
  moves

kbdVars == <<shift, port, chars, held, caps, twice, meant, moves>>

-----------------------------------------------------------------------------
(* kbd.h: what a code means.  "NO" is 0, which consoleintr() drops.           *)
Shiftcode(data) ==
  IF data \in {29, 157} THEN {"CTL"}
  ELSE IF data \in {42, 54} THEN {"SHIFT"}
  ELSE IF data \in {56, 184} THEN {"ALT"} ELSE {}
Togglecode(data) ==
  IF data = 58 THEN {"CAPSLOCK"} ELSE IF data = 69 THEN {"NUMLOCK"} ELSE IF data = 70 THEN {"SCROLLLOCK"} ELSE {}

Maps == [k1 |-> 2, ka |-> 30, slash |-> 53, kp_div |-> 181, kp_enter |-> 156, up |-> 200]
Normalmap == [k1 |-> "1", ka |-> "a", slash |-> "/", kp_div |-> "/", kp_enter |-> "\n", up |-> "KEY_UP"]
Shiftmap  == [Normalmap EXCEPT !.k1 = "!", !.ka = "A", !.slash = "?"]
Ctlmap    == [k1 |-> "NO", ka |-> "^A", slash |-> "^/", kp_div |-> "^/", kp_enter |-> "\r", up |-> "KEY_UP"]

Toggle(A, B) == (A \ B) \cup (B \ A)
Charcode(bits) == IF "CTL" \in bits THEN Ctlmap ELSE IF "SHIFT" \in bits THEN Shiftmap ELSE Normalmap
Upper(c) == IF c = "a" THEN "A" ELSE IF c = "A" THEN "a" ELSE c
Char(bits, data) ==
  LET keys == {k \in DOMAIN Maps : Maps[k] = data}
      c    == IF keys = {} THEN "NO" ELSE Charcode(bits)[CHOOSE k \in keys : TRUE]
  IN  IF "CAPSLOCK" \in bits THEN Upper(c) ELSE c

-----------------------------------------------------------------------------
(* kbdgetc(): one byte of the port.                                           *)
Unescaped(data, bits) == IF "E0ESC" \in bits THEN data ELSE data - 128
LeavesEscape(data, bits) == bits \ Shiftcode(Unescaped(data, bits))  \* mutant
Released(data, bits)     == bits \ (Shiftcode(Unescaped(data, bits)) \cup {"E0ESC"})

Escape ==
  /\ Head(port) = 224
  /\ shift' = shift \cup {"E0ESC"}
  /\ UNCHANGED chars
KeyReleased ==
  /\ Head(port) # 224 /\ Head(port) >= 128
  /\ shift' = Released(Head(port), shift)
  /\ UNCHANGED chars
Pressed ==
  /\ Head(port) < 128
  /\ LET data == IF "E0ESC" \in shift THEN Head(port) + 128 ELSE Head(port)
         bits == Toggle((shift \ {"E0ESC"}) \cup Shiftcode(data), Togglecode(data))
         c    == Char(bits, data) IN
     /\ shift' = bits
     /\ chars' = IF c = "NO" THEN chars ELSE Append(chars, c)
Kbdgetc ==
  /\ port # <<>>
  /\ Escape \/ KeyReleased \/ Pressed
  /\ port' = Tail(port)
  /\ UNCHANGED <<held, caps, twice, meant, moves>>

-----------------------------------------------------------------------------
(* The keyboard.                                                              *)
KindOf    == [lshift |-> "SHIFT", rshift |-> "SHIFT", lctl |-> "CTL", rctl |-> "CTL", ralt |-> "ALT"]
Modifiers == DOMAIN KindOf
Keys      == Modifiers \cup DOMAIN Maps \cup {"capslock", "pause"}
E0        == {"rctl", "ralt", "kp_div", "kp_enter", "up"}
Make      == [lshift |-> 42, rshift |-> 54, lctl |-> 29, rctl |-> 29, ralt |-> 56, capslock |-> 58,
              k1 |-> 2, ka |-> 30, slash |-> 53, kp_div |-> 53, kp_enter |-> 28, up |-> 72]
Down(kind) == \E k \in held \cap Modifiers : KindOf[k] = kind

(* A cursor key hides the shift keys that are down from older programs, and   *)
(* Pause sends make and break codes of other keys.                            *)
CodesDown(k) ==
  IF k = "pause" THEN IF Down("CTL") THEN <<224, 70, 224, 198>> ELSE <<225, 29, 69, 225, 157, 197>>
  ELSE (IF k = "up" /\ Down("SHIFT") THEN <<224, 170>> ELSE <<>>)
       \o (IF k \in E0 THEN <<224>> ELSE <<>>) \o <<Make[k]>>
CodesUp(k) ==
  (IF k \in E0 THEN <<224>> ELSE <<>>) \o <<Make[k] + 128>>
  \o (IF k = "up" /\ Down("SHIFT") THEN <<224, 42>> ELSE <<>>)

(* What the user means by a key: a character, by the keys that are down now.  *)
Means(k) ==
  LET c == (IF Down("CTL") THEN Ctlmap ELSE IF Down("SHIFT") THEN Shiftmap ELSE Normalmap)[k]
  IN  IF caps THEN Upper(c) ELSE c

KbdInit ==
  /\ shift = {} /\ port = <<>> /\ chars = <<>>
  /\ held = {} /\ caps = FALSE /\ twice = FALSE /\ meant = <<>> /\ moves = 0

Sends(codes) ==
  /\ moves < MaxKeys /\ moves' = moves + 1
  /\ Len(port) + Len(codes) <= MaxCodes /\ port' = port \o codes
  /\ UNCHANGED <<shift, chars>>
(* A key that stays down sends its code again.                                *)
PressKey(k) ==
  /\ k \in held => k \in DOMAIN Maps
  /\ Sends(CodesDown(k))
  /\ held' = IF k = "pause" THEN held ELSE held \cup {k}
  /\ caps' = (caps # (k = "capslock"))
  /\ twice' = (twice \/ (k \in Modifiers /\ Down(KindOf[k])))
  /\ meant' = IF k \in DOMAIN Maps /\ Means(k) # "NO" THEN Append(meant, Means(k)) ELSE meant
ReleaseKey(k) ==
  /\ k \in held
  /\ Sends(CodesUp(k))
  /\ held' = held \ {k}
  /\ UNCHANGED <<caps, twice, meant>>

KbdNext == Kbdgetc \/ \E k \in Keys : PressKey(k) \/ ReleaseKey(k)
KbdSpec == KbdInit /\ [][KbdNext]_kbdVars

-----------------------------------------------------------------------------
(* The characters are the ones that were typed, under the modifiers that were *)
(* down when they were, whatever codes come between.  (When both keys of a    *)
(* modifier are down and one is released, the single bit forgets the other.)  *)
CharsAreTyped ==
  ~twice => IsPrefix(chars, meant) /\ (port = <<>> => chars = meant)

(* No modifier sticks: once every code is read, a bit is set only while one   *)
(* of its keys is down, and no escape is left for the next key.               *)
NothingSticks ==
  port = <<>> =>
    /\ \A kind \in {"SHIFT", "CTL", "ALT"} : kind \in shift => Down(kind)
    /\ "E0ESC" \notin shift
    /\ "CAPSLOCK" \in shift <=> caps

(* What was typed is what is read, whatever came before it.                   *)
KeysSound == CharsAreTyped /\ NothingSticks

=============================================================================
