------------------------------- MODULE Console -------------------------------
(***************************************************************************)
(* The console daemon (src/modules/daemon_console, src/libs/d7keymap):     *)
(* virtual consoles with their output and input, the keyboard with its     *)
(* modifiers, and the screen, which shows one console.  A line is a        *)
(* sequence of characters; NL and CR are the control characters.           *)
(***************************************************************************)
EXTENDS Integers, Sequences, FiniteSets, SequencesExt

CONSTANTS
    HEIGHT, WIDTH,  \* of a console
    LastConsole,    \* consoles are 0..LastConsole, console 0 is the kernel log
    Texts,          \* what the processes print
    KeyEvents,      \* keyboard events: [symbol, release]
    Modifiers,      \* keymap.modifiers
    Mapping,        \* keymap.mapping: <<modifiers, main>> -> [act, text or to]
    NumberOf,       \* the symbols that parse as a number
    MaxPrints, MaxKeyEvents \* bounds

VARIABLES
    lines,      \* console -> Output.lines
    input,      \* console -> [dead, buffer]: Input
    prints,     \* console -> the queue of its subscription
    pressed_modifiers,
    active_index,
    screen,     \* what was rendered last, HEIGHT lines
    keyboard,   \* keyboard/event queue
    printed,    \* console -> all the text it has received
    print_count, key_count

consoleVars == <<lines, input, prints, pressed_modifiers, active_index, screen, keyboard,
                 printed, print_count, key_count>>

Consoles == 0..LastConsole
NL == "nl"
CR == "cr"

new_line(ls) == LET l == Append(ls, <<>>) IN IF Len(l) > HEIGHT THEN Tail(l) ELSE l

write_byte(ls, byte) ==
    IF byte = CR THEN ls
    ELSE IF byte = NL THEN new_line(ls)
    ELSE LET room == IF ls = <<>> THEN <<<<>>>>
                     ELSE IF Len(Last(ls)) = WIDTH THEN new_line(ls) ELSE ls
         IN [room EXCEPT ![Len(room)] = Append(@, byte)]

write_str(ls, text) == FoldLeft(write_byte, ls, text)

(* VirtualConsole::render of console c: the input after the output.        *)
render(ls, in) ==
    LET s == write_str(ls, in.buffer)
    IN  [i \in 1..HEIGHT |-> IF i <= Len(s) THEN s[i] ELSE <<>>]

ConsoleInit ==
    /\ lines = [c \in Consoles |-> <<>>]
    /\ input = [c \in Consoles |-> [dead |-> <<>>, buffer |-> <<>>]]
    /\ prints = [c \in Consoles |-> <<>>]
    /\ pressed_modifiers = {} /\ active_index = 0
    /\ screen = render(<<>>, [dead |-> <<>>, buffer |-> <<>>])
    /\ keyboard = <<>>
    /\ printed = [c \in Consoles |-> <<>>] /\ print_count = 0 /\ key_count = 0

(* A process prints to a console and waits for the acknowledgement.        *)
print(c, text) ==
    /\ prints[c] = <<>> /\ print_count < MaxPrints
    /\ prints' = [prints EXCEPT ![c] = <<text>>] /\ print_count' = print_count + 1
    /\ UNCHANGED <<lines, input, pressed_modifiers, active_index, screen, keyboard, printed, key_count>>

(* The keyboard driver publishes an event.                                 *)
keyboard_event ==
    /\ key_count < MaxKeyEvents /\ key_count' = key_count + 1
    /\ \E e \in KeyEvents : keyboard' = Append(keyboard, e)
    /\ UNCHANGED <<lines, input, prints, pressed_modifiers, active_index, screen, printed, print_count>>
----------------------------------------------------------------------------
(* Mutant: the console is drawn whether or not it is the active one.       *)
receive_print_draws(c) ==
    /\ keyboard = <<>> /\ prints[c] # <<>> /\ \A d \in 0..c - 1 : prints[d] = <<>>
    /\ lines' = [lines EXCEPT ![c] = write_str(@, Head(prints[c]))]
    /\ printed' = [printed EXCEPT ![c] = @ \o Head(prints[c])]
    /\ prints' = [prints EXCEPT ![c] = Tail(@)]
    /\ screen' = render(lines'[c], input[c])
    /\ UNCHANGED <<input, pressed_modifiers, active_index, keyboard, print_count, key_count>>

(* receive_print and the arm of select! around it: the keyboard comes      *)
(* first there, then the consoles in their order.                          *)
receive_print(c) ==
    /\ keyboard = <<>> /\ prints[c] # <<>> /\ \A d \in 0..c - 1 : prints[d] = <<>>
    /\ lines' = [lines EXCEPT ![c] = write_str(@, Head(prints[c]))]
    /\ printed' = [printed EXCEPT ![c] = @ \o Head(prints[c])]
    /\ prints' = [prints EXCEPT ![c] = Tail(@)]
    /\ screen' = IF c = active_index THEN render(lines'[c], input[c]) ELSE screen
    /\ UNCHANGED <<input, pressed_modifiers, active_index, keyboard, print_count, key_count>>

(* process_keysym_press.  A Remap entry leads to a symbol whose own entry *)
(* is not a Remap: chains, which the code would follow, are left out.     *)
process_keysym_press(symbol, mods) ==
    LET found(s) == IF <<mods, s>> \in DOMAIN Mapping THEN Mapping[<<mods, s>>] ELSE [act |-> "none"]
        first == found(symbol)
    IN  IF first.act = "remap" THEN found(first.to) ELSE first

(* process_event: the modifiers afterwards, and the EventAction.           *)
process_event(e, mods) ==
    IF e.symbol \in Modifiers
    THEN [mods |-> IF e.release THEN mods \ {e.symbol} ELSE mods \cup {e.symbol}, act |-> "ignore"]
    ELSE IF e.release THEN [mods |-> mods, act |-> "ignore"]
    ELSE LET a == process_keysym_press(e.symbol, mods)
         IN  IF a.act = "none" THEN [mods |-> mods, act |-> "unmatched", symbol |-> e.symbol]
             ELSE IF a.act = "ignore" THEN [mods |-> mods, act |-> "ignore"]
             ELSE [mods |-> mods, act |-> a.act, text |-> a.text]

(* Input::keyboard_event; Normal form leaves the texts of the keymap, and  *)
(* what they are appended to, as they are.                                 *)
input_event(in, a) ==
    CASE a.act = "text"   -> [dead |-> <<>>, buffer |-> in.buffer \o in.dead \o a.text]
      [] a.act = "buffer" -> [in EXCEPT !.dead = @ \o a.text]
      [] a.act = "unmatched" /\ a.symbol = "Enter" /\ a.mods = {} -> [in EXCEPT !.buffer = Append(@, NL)]
      [] a.act = "unmatched" /\ a.symbol = "Backspace" /\ a.mods = {} ->
           [dead |-> <<>>, buffer |-> IF in.buffer = <<>> THEN <<>> ELSE Front(in.buffer)]
      [] OTHER -> in

(* The arm of select! for the keyboard.                                    *)
receive_key ==
    /\ keyboard # <<>> /\ keyboard' = Tail(keyboard)
    /\ LET a == process_event(Head(keyboard), pressed_modifiers)
           number == a.act = "unmatched" /\ a.mods = {"LeftCtrl"} /\ a.symbol \in DOMAIN NumberOf
           now == IF number THEN NumberOf[a.symbol] ELSE active_index
       IN  /\ pressed_modifiers' = a.mods
           /\ active_index' = now
           /\ input' = IF now = 0 THEN input ELSE [input EXCEPT ![now] = input_event(@, a)]
           /\ screen' = render(lines[now], input'[now])
    /\ UNCHANGED <<lines, prints, printed, print_count, key_count>>

ConsoleStep == receive_key \/ \E c \in Consoles : receive_print(c)

ConsoleNext == ConsoleStep \/ keyboard_event \/ \E c \in Consoles \ {0}, t \in Texts : print(c, t)
----------------------------------------------------------------------------
(***************************************************************************)
(* The screen always shows the active console with everything it received: *)
(* after a switch, after output to it and after output to another one.     *)
(***************************************************************************)
ScreenCurrent == screen = render(lines[active_index], input[active_index])

(* The paragraphs of a text, broken every WIDTH characters.  A line break  *)
(* on an empty console opens the first line.                               *)
Broken(text) ==
    LET t      == SelectSeq(text, LAMBDA b : b # CR)
        ends   == SetToSortSeq({i \in DOMAIN t : t[i] = NL} \cup {Len(t) + 1}, <)
        Para(k) == SubSeq(t, IF k = 1 THEN 1 ELSE ends[k - 1] + 1, ends[k] - 1)
        Rows(p) == IF p = <<>> THEN <<<<>>>>
                   ELSE [r \in 1..((Len(p) + WIDTH - 1) \div WIDTH) |->
                           SubSeq(p, ((r - 1) * WIDTH) + 1,
                                  IF r * WIDTH < Len(p) THEN r * WIDTH ELSE Len(p))]
        all    == FlattenSeq([k \in DOMAIN ends |-> Rows(Para(k))])
    IN  IF ends[1] = 1 THEN Tail(all) ELSE all

(***************************************************************************)
(* A console holds the last HEIGHT lines of all that was printed to it,    *)
(* broken at line breaks and at its width, whatever pieces it came in, and *)
(* the screen shows the active one.                                        *)
(***************************************************************************)
OutputIsTail ==
    /\ ScreenCurrent
    /\ \A c \in Consoles :
        LET b == Broken(printed[c])
        IN lines[c] = SubSeq(b, IF Len(b) > HEIGHT THEN Len(b) - HEIGHT + 1 ELSE 1, Len(b))

=============================================================================
