---------------------------- MODULE Ps2Keyboard ----------------------------
(***************************************************************************)
(* The PS/2 keyboard driver (src/modules/driver_ps2): initialisation, a    *)
(* dialogue of command and answer bytes, then the decoding of scan codes,  *)
(* which arrive byte by byte as messages of the keyboard interrupt.  The   *)
(* messages are unreliable: a byte is lost before the driver subscribes to *)
(* them, and when its mailbox is full.                                     *)
(***************************************************************************)
EXTENDS Naturals, Sequences, SequencesExt, FiniteSets

CONSTANTS
    Codes,       \* codes of keys
    MaxKeys,     \* bound: key presses and releases
    MaxErrors,   \* bound: error bytes sent by the keyboard
    MAILBOX_BUFFER_LIMIT

ASSUME Ps2Assumption == MaxKeys \in Nat /\ MaxErrors \in Nat /\ MAILBOX_BUFFER_LIMIT \in Nat \ {0}

VARIABLES
    ps2_step,             \* commands of init done so far
    ps2_output,           \* answers in the output buffer
    conf,                 \* the byte taken for the configuration byte
    subscribed,           \* the driver has subscribed to irq/keyboard
    line,                 \* bytes of the current key still to be sent
    key,                  \* that key
    mailbox,              \* bytes on their way to the driver
    next_is_release, next_is_alternative,   \* KeyboardState
    key_total,            \* keys pressed or released
    prefix,               \* bytes that the mailbox took since the last code or error byte
    pressed,              \* keys whose code byte reached the mailbox
    events,               \* events published
    errors                \* error bytes sent

ps2Vars == <<ps2_step, ps2_output, conf, subscribed, line, key, mailbox, next_is_release,
             next_is_alternative, key_total, prefix, pressed, events, errors>>

(* Keyboard::init: what the keyboard answers to each command: self test,   *)
(* echo, stop scanning, identify, configuration byte, scan code set, start.*)
Answers == <<<<"ACK", "AA">>, <<"EE">>, <<"ACK">>, <<"ACK", "AB", "83">>, <<"CONF">>,
             <<"ACK", "ACK">>, <<"ACK">>>>

(* The byte that each command waits for, skipping others; configure takes  *)
(* whatever byte comes first.                                              *)
Wanted == <<"AA", "EE", "ACK", "83", "any", "ACK", "ACK">>

Ps2Init ==
    /\ ps2_step = 1 /\ ps2_output = Answers[1] /\ conf = "none"
    /\ subscribed = FALSE /\ line = <<>> /\ key = <<>> /\ mailbox = <<>>
    /\ next_is_release = FALSE /\ next_is_alternative = FALSE
    /\ key_total = 0 /\ prefix = <<>> /\ pressed = <<>> /\ events = <<>> /\ errors = 0

Initialized == ps2_step > Len(Wanted)
Decoder == <<next_is_release, next_is_alternative>>

(* test_result and its variants: bytes are read until the expected one     *)
(* comes; then the next command is sent, whose answers follow what is left.*)
(* After the last one interrupts are enabled.                              *)
ps2_init_read ==
    LET byte == Head(ps2_output)
        found == Wanted[ps2_step] \in {byte, "any"}
        last == ps2_step = Len(Wanted)
        answer == IF found /\ ~last THEN Answers[ps2_step + 1] ELSE <<>>
    IN /\ ~Initialized /\ ps2_output # <<>>
       /\ ps2_step' = IF found THEN ps2_step + 1 ELSE ps2_step
       /\ ps2_output' = Tail(ps2_output) \o answer
       /\ conf' = IF Wanted[ps2_step] = "any" THEN byte ELSE conf
       /\ UNCHANGED <<subscribed, line, key, mailbox, Decoder, key_total, prefix, pressed, events,
                      errors>>

(* The subscription to irq/keyboard.                                       *)
ps2_subscribe ==
    /\ Initialized /\ ~subscribed /\ subscribed' = TRUE
    /\ UNCHANGED <<ps2_step, ps2_output, conf, line, key, mailbox, Decoder, key_total, prefix,
                   pressed, events, errors>>

(* The interrupt handler publishes the byte; TRUE when the driver gets it. *)
Taken == subscribed /\ Len(mailbox) < MAILBOX_BUFFER_LIMIT
publish(byte) == mailbox' = IF Taken THEN Append(mailbox, byte) ELSE mailbox

(* An answer that init left in the buffer raises an interrupt.             *)
answer_byte ==
    /\ Initialized /\ ps2_output # <<>>
    /\ publish(Head(ps2_output)) /\ ps2_output' = Tail(ps2_output)
    /\ UNCHANGED <<ps2_step, conf, subscribed, line, key, Decoder, key_total, prefix, pressed, events,
                   errors>>

(* The keyboard: a key is one to three bytes.                              *)
ScanBytes(code, alternative, release) ==
    (IF alternative THEN <<"E0">> ELSE <<>>) \o (IF release THEN <<"F0">> ELSE <<>>) \o <<code>>

key_event(code, alternative, release) ==
    /\ Initialized /\ line = <<>> /\ key_total < MaxKeys
    /\ key_total' = key_total + 1
    /\ line' = ScanBytes(code, alternative, release)
    /\ key' = [keycode |-> <<code, alternative>>, release |-> release]
    /\ UNCHANGED <<ps2_step, ps2_output, conf, subscribed, mailbox, Decoder, prefix, pressed, events,
                   errors>>

(* The keyboard sends a byte of the key.                                   *)
key_byte ==
    LET all == Append(prefix, Head(line))
        whole == all = ScanBytes(key.keycode[1], key.keycode[2], key.release)
    IN /\ line # <<>> /\ ps2_output = <<>>
       /\ publish(Head(line)) /\ line' = Tail(line)
       /\ prefix' = IF ~Taken THEN prefix ELSE IF Len(line) = 1 THEN <<>> ELSE all
       /\ pressed' = IF Taken /\ Len(line) = 1 THEN Append(pressed, [event |-> key, whole |-> whole])
                     ELSE pressed
       /\ UNCHANGED <<ps2_step, ps2_output, conf, subscribed, key, Decoder, key_total, events, errors>>

(* An overrun or error byte, or the answer to a late command, in between.  *)
key_error(byte) ==
    /\ Initialized /\ ps2_output = <<>> /\ errors < MaxErrors
    /\ publish(byte) /\ errors' = errors + 1
    /\ prefix' = IF Taken /\ byte \in {"00", "FF"} THEN <<>> ELSE prefix
    /\ UNCHANGED <<ps2_step, ps2_output, conf, subscribed, line, key, Decoder, key_total, pressed, events>>

(* Mutant: the alternative flag survives the key.                          *)
apply_sticky(byte) ==
    CASE byte = "F0" -> next_is_release' = TRUE /\ UNCHANGED <<next_is_alternative, events>>
      [] byte = "E0" -> next_is_alternative' = TRUE /\ UNCHANGED <<next_is_release, events>>
      [] byte \in {"00", "FF"} ->
             next_is_release' = FALSE /\ next_is_alternative' = FALSE /\ UNCHANGED events
      [] OTHER ->
             /\ events' = Append(events, [keycode |-> <<byte, next_is_alternative>>,
                                          release |-> next_is_release])
             /\ next_is_release' = FALSE /\ UNCHANGED next_is_alternative

(* KeyboardState::apply.                                                   *)
apply(byte) ==
    CASE byte = "F0" -> next_is_release' = TRUE /\ UNCHANGED <<next_is_alternative, events>>
      [] byte = "E0" -> next_is_alternative' = TRUE /\ UNCHANGED <<next_is_release, events>>
      [] byte \in {"00", "FF"} ->
             next_is_release' = FALSE /\ next_is_alternative' = FALSE /\ UNCHANGED events
      [] OTHER ->
             /\ events' = Append(events, [keycode |-> <<byte, next_is_alternative>>,
                                          release |-> next_is_release])
             /\ next_is_release' = FALSE /\ next_is_alternative' = FALSE

(* Keyboard::notify drops acknowledgements and echoes.                     *)
notify ==
    /\ subscribed /\ mailbox # <<>>
    /\ mailbox' = Tail(mailbox)
    /\ IF Head(mailbox) \in {"ACK", "EE"} THEN UNCHANGED <<Decoder, events>> ELSE apply(Head(mailbox))
    /\ UNCHANGED <<ps2_step, ps2_output, conf, subscribed, line, key, key_total, prefix, pressed, errors>>

Ps2Next ==
    \/ ps2_init_read \/ ps2_subscribe \/ answer_byte
    \/ \E code \in Codes, alternative, release \in BOOLEAN : key_event(code, alternative, release)
    \/ key_byte
    \/ \E byte \in {"00", "ACK"} : key_error(byte)
    \/ notify

Ps2Driver == ps2_init_read \/ ps2_subscribe \/ notify

Ps2Spec == Ps2Init /\ [][Ps2Next]_ps2Vars /\ WF_ps2Vars(Ps2Driver)
----------------------------------------------------------------------------
(***************************************************************************)
(* Each key whose code byte reaches the driver yields one event, in order. *)
(* The event is the key itself unless an error byte came inside that very  *)
(* key, one of its prefix bytes was lost, or one was left over from a key  *)
(* whose code byte was lost: what goes wrong with one key spoils the next  *)
(* at most.                                                                *)
(***************************************************************************)
EventsMatchKeys ==
    /\ Len(events) <= Len(pressed)
    /\ \A i \in DOMAIN events :
           /\ events[i].keycode[1] = pressed[i].event.keycode[1]
           /\ pressed[i].whole => events[i] = pressed[i].event

(***************************************************************************)
(* The dialogue of init has ended, each answer taken for what it is: the   *)
(* byte that configure writes back is the configuration byte, not a late   *)
(* answer to an earlier command.  The driver listens to the keyboard.      *)
(***************************************************************************)
Ps2Ready == subscribed /\ conf = "CONF"
=============================================================================
