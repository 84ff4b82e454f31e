------------------------------ MODULE Keyboard ------------------------------
(***************************************************************************)
(* The keyboard of keyboard/classic.c and keyboard/keyboard.c: the ring    *)
(* buffer of one process, written by the keyboard interrupt while the      *)
(* process is in the foreground and read by the system call get_key while  *)
(* it runs, and the special keys all processes share.                      *)
(*                                                                         *)
(* The ring has a head and a tail that only grow, and no count: keys are   *)
(* read until the entry at the head is 0.                                  *)
(***************************************************************************)
EXTENDS Integers, Sequences

CONSTANTS Key,        \* the characters of the keys that are not special
          NoKey,      \* the character 0: an entry with no key
          Size,       \* COS32_KEYBOARD_BUFFER_SIZE
          Width,      \* how many values an int has: 2^32
          Special,    \* the special keys
          CapsLock

ASSUME KeyboardAssumption ==
    /\ NoKey \notin Key
    /\ Size \in Nat \ {0}
    /\ Width \in Nat \ {0}
    /\ Width % Size = 0
    /\ Size < Width
    /\ CapsLock \in Special

VARIABLES buffer, tail, head,   \* process->keyboard; tail and head as unsigned
          special_keys,
          got,       \* what the last get_key returned
          overrun,   \* history: a key was written over one nobody had read
          down       \* history: the special keys held down

ringVars == <<buffer, tail, head, got, overrun>>
keyboardVars == <<buffer, tail, head, special_keys, got, overrun, down>>

(* The index is taken modulo an unsigned sizeof, so tail and head count on *)
(* as unsigned numbers when they overflow.                                 *)
Index(count) == count % Size
Next32(count) == (count + 1) % Width

KeyboardInit ==
    /\ buffer = [i \in 0 .. Size - 1 |-> NoKey]
    /\ tail = 0
    /\ head = 0
    /\ special_keys = [s \in Special |-> FALSE]
    /\ got = NoKey
    /\ overrun = FALSE
    /\ down = {}

-----------------------------------------------------------------------------
(* keyboard_push never asks whether the ring is full. *)
keyboard_push(c) ==
    /\ buffer' = [buffer EXCEPT ![Index(tail)] = c]
    /\ tail' = Next32(tail)
    /\ overrun' = (overrun \/ buffer[Index(tail)] # NoKey)
    /\ UNCHANGED <<head, special_keys, got, down>>

(* Seeded bug: the entry that was read is not cleared.                     *)
PopKeepsEntry ==
    LET c == buffer[Index(head)]
    IN  /\ got' = c
        /\ head' = IF c = NoKey THEN head ELSE Next32(head)
        /\ UNCHANGED <<buffer, tail, special_keys, overrun, down>>

(* keyboard_pop, for the system call get_key. *)
keyboard_pop ==
    LET c == buffer[Index(head)]
    IN  /\ got' = c
        /\ IF c = NoKey
           THEN UNCHANGED <<buffer, head>>
           ELSE /\ buffer' = [buffer EXCEPT ![Index(head)] = NoKey]
                /\ head' = Next32(head)
        /\ UNCHANGED <<tail, special_keys, overrun, down>>

(* keyboard_special_on, keyboard_special_off *)
keyboard_special_on(s) == special_keys' = [special_keys EXCEPT ![s] = TRUE]
keyboard_special_off(s) == special_keys' = [special_keys EXCEPT ![s] = FALSE]

(* Seeded bug: every special key changes at every press, as caps lock does. *)
PressToggles(s) ==
    /\ IF special_keys[s] THEN keyboard_special_off(s) ELSE keyboard_special_on(s)
    /\ down' = down \cup {s}
    /\ UNCHANGED ringVars

(***************************************************************************)
(* classic_keyboard_handle_interrupt.  A key held down is reported again   *)
(* and again, so a key that is down may be pressed.  Caps lock changes at  *)
(* every press that is reported and at no release.                         *)
(***************************************************************************)
press(s) ==
    /\ IF s = CapsLock /\ special_keys[s]
       THEN keyboard_special_off(s)
       ELSE keyboard_special_on(s)
    /\ down' = down \cup {s}
    /\ UNCHANGED ringVars

release(s) ==
    /\ s \in down
    /\ IF s = CapsLock THEN UNCHANGED special_keys ELSE keyboard_special_off(s)
    /\ down' = down \ {s}
    /\ UNCHANGED ringVars
-----------------------------------------------------------------------------
(* The types of the variables. *)
KeyboardTypeOK ==
    /\ buffer \in [0 .. Size - 1 -> Key \cup {NoKey}]
    /\ tail \in 0 .. Width - 1
    /\ head \in 0 .. Width - 1
    /\ special_keys \in [Special -> BOOLEAN]
    /\ got \in Key \cup {NoKey}
    /\ overrun \in BOOLEAN
    /\ down \subseteq Special

(* The keys from head to tail. *)
Pending == (tail - head) % Width
Contents == [i \in 1 .. Pending |-> buffer[Index(head + i - 1)]]

(* Until a key is overrun, what is read is what was typed, in the order it *)
(* was typed, each key once, and a read finds no key only if there is none *)
(* (keyboard_push, keyboard_pop), also when head and tail overflow.        *)
Q == INSTANCE KeyQueue WITH keys <- IF overrun THEN <<>> ELSE Contents,
                            lost <- overrun
ImplementsKeyQueue == Q!QSpec

(* A special key other than caps lock is on exactly while it is held down, *)
(* however often the keyboard repeats the press (keyboard_special_on).     *)
SpecialIsDown == \A s \in Special \ {CapsLock} : special_keys[s] <=> s \in down
=============================================================================
