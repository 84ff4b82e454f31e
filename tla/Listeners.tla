----------------------------- MODULE Listeners -----------------------------
(***************************************************************************)
(* The keyboard together with its listeners, keyboard/listener.c: a list   *)
(* linked through the listeners themselves, built at boot and walked by    *)
(* the keyboard interrupt for every key typed and every special key that   *)
(* changes.                                                                *)
(*                                                                         *)
(* The kernel builds the list twice.  keyboard_init registers the listener *)
(* for the function keys and the one that scrolls; keyboard_listener_init  *)
(* then forgets the list and registers the first of them again, whose link *)
(* still leads to the second.                                              *)
(***************************************************************************)
EXTENDS Keyboard

CONSTANTS fkeylistener, scrollkeylistener,    \* the two listeners
          Null,                               \* no listener
          Up, Down,                           \* the special keys that scroll
          MaxScroll                           \* bound on y_scroll

ASSUME ListenersAssumption ==
    /\ fkeylistener # scrollkeylistener
    /\ Null \notin {fkeylistener, scrollkeylistener}
    /\ {Up, Down} \subseteq Special \ {CapsLock}
    /\ MaxScroll \in Nat

Listener == {fkeylistener, scrollkeylistener}

(* Bound on the history of a walk: one call more than there are listeners. *)
MaxCalled == 3

VARIABLES boot,         \* what kernel_main has still to do
          next,         \* the link in each listener
          first, last,  \* keyboard_listener_head, keyboard_listener_last
          walk,         \* the special key a walk is about (NoKey when it is about a
                        \* key typed) and the listener it is at
          y_scroll,     \* of the terminal in the foreground
          called,       \* history: the listeners the last walk has called, Null at first
          fresh         \* history: the key of the walk was up before

listVars == <<next, first, last>>
walkVars == <<walk, called, fresh>>
lvars == <<keyboardVars, boot, listVars, walkVars, y_scroll>>

LInit == /\ KeyboardInit
         /\ boot = <<"keyboard_init", "scrollkeylistener_init", "keyboard_listener_init">>
         /\ next = [l \in Listener |-> Null]
         /\ first = Null
         /\ last = Null
         /\ walk = [key |-> NoKey, at |-> Null]
         /\ y_scroll = 0
         /\ called = <<Null>>
         /\ fresh = FALSE

-----------------------------------------------------------------------------
(* Seeded bug: the link of the listener registered is cleared.             *)
RegisterClearsLink(listener, l) ==
    /\ next' = [IF l = Null THEN next ELSE [next EXCEPT ![l] = listener]
                  EXCEPT ![listener] = Null]
    /\ first' = IF l = Null THEN listener ELSE first
    /\ last' = listener

(* keyboard_listener_register, on a list whose last listener is l. *)
keyboard_listener_register(listener, l) ==
    /\ next' = IF l = Null THEN next ELSE [next EXCEPT ![l] = listener]
    /\ first' = IF l = Null THEN listener ELSE first
    /\ last' = listener

BootStep(name) == /\ boot # <<>>
                  /\ Head(boot) = name
                  /\ boot' = Tail(boot)
                  /\ UNCHANGED <<keyboardVars, walkVars, y_scroll>>

keyboard_init ==
    /\ BootStep("keyboard_init")
    /\ keyboard_listener_register(fkeylistener, last)

scrollkeylistener_init ==
    /\ BootStep("scrollkeylistener_init")
    /\ keyboard_listener_register(scrollkeylistener, last)

(* Seeded bug: the list is not forgotten before the listener is registered *)
(* again.                                                                  *)
InitKeepsList ==
    /\ BootStep("keyboard_listener_init")
    /\ keyboard_listener_register(fkeylistener, last)

(* Registers on the list it has emptied: the last listener is none. *)
keyboard_listener_init ==
    /\ BootStep("keyboard_listener_init")
    /\ keyboard_listener_register(fkeylistener, Null)

-----------------------------------------------------------------------------
(* Interrupts come when the kernel has started, and none during a walk. *)
Idle == boot = <<>> /\ walk.at = Null

(* Seeded bug: a special key that is on already alerts the listeners too.  *)
AlertAlways(s) == TRUE

(* keyboard_special_on and keyboard_special_off return early when the key  *)
(* is on, or off, already.                                                 *)
Alert(s) == special_keys'[s] # special_keys[s]

Walk(key) == /\ walk' = [key |-> key, at |-> first]
             /\ called' = <<>>

Typed == \E c \in Key :
    /\ keyboard_push(c)
    /\ Walk(NoKey)
    /\ fresh' = TRUE

SpecialChanges == \E s \in Special :
    /\ \/ press(s) /\ (s = Down => y_scroll < MaxScroll)
       \/ release(s)
    /\ IF Alert(s) THEN Walk(s) ELSE UNCHANGED <<walk, called>>
    /\ fresh' = (s \notin down)

Pop == keyboard_pop /\ UNCHANGED walkVars

(* scrollkeylistener_special and video_terminal_set_scroll: a press moves  *)
(* the view by a line, and not above the first.                            *)
scrollkeylistener_special(key) ==
    y_scroll' = CASE key = Up /\ special_keys[key] /\ y_scroll > 0 -> y_scroll - 1
                  [] key = Down /\ special_keys[key] -> y_scroll + 1
                  [] OTHER -> y_scroll

(***************************************************************************)
(* A turn of the loop of keyboard_listener_keypressed and _keyspecial.     *)
(* Both listeners have both callbacks, so the turn that skips a listener   *)
(* without going on to the next does not occur.  What the listener for the *)
(* function keys does is in modules Process and Rectangles.                *)
(***************************************************************************)
Call == LET l == walk.at IN
    /\ l # Null
    /\ called' = IF Len(called) = MaxCalled THEN called ELSE Append(called, l)
    /\ walk' = [walk EXCEPT !.at = next[l]]
    /\ IF l = scrollkeylistener /\ walk.key \in Special
       THEN scrollkeylistener_special(walk.key)
       ELSE UNCHANGED y_scroll
    /\ UNCHANGED <<keyboardVars, boot, listVars, fresh>>

LNext == \/ keyboard_init
         \/ scrollkeylistener_init
         \/ keyboard_listener_init
         \/ /\ Idle
            /\ Typed \/ SpecialChanges \/ Pop
            /\ UNCHANGED <<boot, listVars, y_scroll>>
         \/ Call

(* The processor runs the interrupt handler to its end. *)
LSpec == LInit /\ [][LNext]_lvars /\ WF_lvars(Call)
-----------------------------------------------------------------------------
(* Each listener hears of each key once, in the order of keyboard_init:    *)
(* keyboard_listener_init does not lose the listener that scrolls, nor put *)
(* the other on the list twice.                                            *)
EveryListenerHears ==
    walk.at = Null /\ called # <<Null>> => called = <<fkeylistener, scrollkeylistener>>

(* The walk of keyboard_listener_keypressed and of _keyspecial ends, and   *)
(* the interrupt returns.                                                  *)
WalkEnds == walk.at # Null ~> walk.at = Null

(* A key that is held down moves the view once, however often the keyboard *)
(* reports it (keyboard_special_on, scrollkeylistener_special).            *)
ScrollsOncePerPress == [][y_scroll' # y_scroll => fresh]_lvars
=============================================================================
