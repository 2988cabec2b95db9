------------------------------ MODULE Keyboard ------------------------------
(***************************************************************************)
(* The keyboard buffer (drivers/keyboard/keyboard_circular_buffer.c), the  *)
(* interrupt that fills it and wakes a reader (keyboard.c), and a thread   *)
(* that empties it with readline and getchar (console_syscalls.c).         *)
(*                                                                         *)
(* The interrupt takes no lock.  It runs behind a trap gate, so the timer  *)
(* may also suspend it between two of its steps and let the reader run,    *)
(* unless the reader is the thread it came over.                           *)
(*                                                                         *)
(* The model stops where the code leaves what the buffer means: see Sound. *)
(***************************************************************************)
EXTENDS Integers, Sequences, SequencesExt

CONSTANTS Size,          \* KEYBOARD_BUFFER_SIZE
          Length         \* lengths passed to readline

ASSUME KeyboardAssumption ==
    /\ Size \in Nat \ {0, 1}
    /\ Length \subseteq 1..Size - 1    \* readline and get_nextline refuse others

Key == {"a", "newline", "backspace"}

VARIABLES key_buf, start_ptr, end_ptr, newline_ptr,
          irq,         \* where the interrupt is
          key,         \* the character it brings
          over,        \* it interrupted the reader, which stays where it is
          reader_pc,   \* where the reader is
          room,        \* how many characters readline may still copy; 0: getchar
          waiting,     \* the reader is on readline_cond_var's queue
          missed,      \* a newline came in a window in which the reader cannot see it
          typed,       \* what was put into the buffer and not erased or taken
          got          \* the character that the caller was just given

buffer == <<key_buf, start_ptr, end_ptr, newline_ptr>>
interrupt == <<irq, key, over>>
reader == <<reader_pc, room, waiting, missed>>
keyboardVars == <<buffer, interrupt, reader, typed, got>>

NEXT(i) == (i + 1) % Size
PREV(i) == IF i = 0 THEN Size - 1 ELSE i - 1

KeyboardInit ==
    /\ key_buf = [i \in 0..Size - 1 |-> "zero"]
    /\ start_ptr = 0 /\ end_ptr = 0 /\ newline_ptr = -1
    /\ irq = "idle" /\ key = "none" /\ over = FALSE
    /\ reader_pc = "out" /\ room = 0 /\ waiting = FALSE /\ missed = FALSE
    /\ typed = <<>> /\ got = "none"
-----------------------------------------------------------------------------
(* There is a whole line in the buffer.                                    *)
LineThere == \E k \in DOMAIN typed : typed[k] = "newline"

(* enqueue_scancode, once the scan code has given a character: what        *)
(* add_keystroke does, then the signal if the character is a newline,      *)
(* also when it was dropped.                                               *)
Irq(from, to) == irq = from /\ irq' = to /\ UNCHANGED <<key, over>>

full == NEXT(end_ptr) = start_ptr

enqueue_scancode ==
    /\ irq = "idle"
    /\ key' \in Key
    /\ irq' = "add"
    /\ over' \in (IF reader_pc \in {"out", "asleep"} THEN {FALSE} ELSE BOOLEAN)
    /\ UNCHANGED <<buffer, reader, typed, got>>

add_dropped ==
    /\ full
    /\ Irq("add", "added")
    /\ UNCHANGED <<buffer, reader, typed, got>>

add_stored ==
    /\ ~full
    /\ Irq("add", IF key = "backspace" THEN "erase" ELSE "mark")
    /\ key_buf' = [key_buf EXCEPT ![end_ptr] = key]
    /\ typed' = IF key = "backspace" THEN typed ELSE Append(typed, key)
    /\ missed' = (missed \/ (key = "newline" /\ reader_pc \in {"char", "end", "clear"}))
    /\ UNCHANGED <<start_ptr, end_ptr, newline_ptr, reader_pc, room, waiting, got>>

add_marked ==
    /\ Irq("mark", "advance")
    /\ newline_ptr' = IF key = "newline" /\ newline_ptr = -1 THEN end_ptr ELSE newline_ptr
    /\ UNCHANGED <<key_buf, start_ptr, end_ptr, reader, typed, got>>

add_advanced ==
    /\ Irq("advance", "added")
    /\ end_ptr' = NEXT(end_ptr)
    /\ UNCHANGED <<key_buf, start_ptr, newline_ptr, reader, typed, got>>

erase_at_start ==   \* fault: the empty buffer is not tested
    /\ Irq("erase", "added")
    /\ end_ptr' = PREV(end_ptr)
    /\ UNCHANGED <<key_buf, start_ptr, newline_ptr, reader, typed, got>>

add_erased ==
    /\ Irq("erase", "added")
    /\ end_ptr' = IF end_ptr = start_ptr THEN end_ptr ELSE PREV(end_ptr)
    /\ typed' = IF end_ptr = start_ptr THEN typed ELSE Front(typed)
    /\ UNCHANGED <<key_buf, start_ptr, newline_ptr, reader, got>>

(* cond_signal(&readline_cond_var).  It waits while the reader holds       *)
(* queue_mutex: for ever when it came over the reader.  A reader that is   *)
(* queued and still awake is current when the interrupt came over it, and  *)
(* on the run queue a second time when it did not.                         *)
cond_signal ==
    /\ reader_pc # "queue"
    /\ reader_pc' = CASE ~waiting       -> reader_pc
               [] reader_pc = "asleep"  -> "test"
               [] reader_pc = "queued"  -> IF over THEN "test" ELSE "twice"
    /\ waiting' = FALSE
    /\ missed' = (missed \/ (reader_pc = "miss" /\ LineThere))
    /\ UNCHANGED room


enqueued ==
    /\ irq = "added"
    /\ irq' = "idle" /\ key' = "none" /\ over' = FALSE
    /\ IF key = "newline" THEN cond_signal ELSE UNCHANGED reader
    /\ UNCHANGED <<buffer, typed, got>>
-----------------------------------------------------------------------------
(* readline_handler_c and getchar_handler_c.  readline_mutex is free       *)
(* whenever the only reader asks for it.                                   *)
Reads(from, to) == ~over /\ reader_pc = from /\ reader_pc' = to /\ UNCHANGED interrupt

read_call(len) ==
    /\ Reads("out", "test")
    /\ room' = len
    /\ got' = "none"
    /\ UNCHANGED <<buffer, waiting, missed, typed>>

read_test ==   \* the test of newline_ptr that get_nextline and get_nextchar begin with
    /\ Reads("test", CASE newline_ptr = -1 -> "miss" [] room > 0 -> "copy" [] OTHER -> "take")
    /\ missed' = (missed /\ newline_ptr = -1)
    /\ UNCHANGED <<buffer, room, waiting, typed, got>>

(* cond_wait: lock queue_mutex; join the queue and unlock it; sleep.       *)
wait_lock ==
    /\ Reads("miss", "queue")
    /\ UNCHANGED <<buffer, room, waiting, missed, typed, got>>

wait_queue ==
    /\ Reads("queue", "queued")
    /\ waiting' = TRUE
    /\ UNCHANGED <<buffer, room, missed, typed, got>>

wait_sleep ==
    /\ Reads("queued", "asleep")
    /\ UNCHANGED <<buffer, room, waiting, missed, typed, got>>
-----------------------------------------------------------------------------
(* get_nextline: a loop copies up to room characters of the line and       *)
(* update_start_ptr passes over the rest of it and the newline.            *)
distance(i, j) == (j - i) % Size

take(to) ==
    /\ Reads(reader_pc, to)
    /\ start_ptr' = NEXT(start_ptr)
    /\ typed' = Tail(typed)

copies == room > 0 /\ start_ptr # newline_ptr

copy_next ==   \* fault: start_ptr is incremented first
    /\ reader_pc = "copy" /\ copies
    /\ got' = key_buf[NEXT(start_ptr)]
    /\ room' = room - 1
    /\ take("copy")
    /\ UNCHANGED <<key_buf, end_ptr, newline_ptr, waiting, missed>>

copy_char ==
    /\ reader_pc = "copy" /\ copies
    /\ got' = key_buf[start_ptr]
    /\ room' = room - 1
    /\ take("copy")
    /\ UNCHANGED <<key_buf, end_ptr, newline_ptr, waiting, missed>>

copy_end ==
    /\ Reads("copy", "skip") /\ ~copies
    /\ room' = 0
    /\ got' = "none"
    /\ UNCHANGED <<buffer, waiting, missed, typed>>

update_start_ptr ==
    /\ reader_pc = "skip"
    /\ take(IF start_ptr # newline_ptr THEN "skip" ELSE "char")
    /\ newline_ptr' = IF start_ptr # newline_ptr THEN newline_ptr ELSE NEXT(newline_ptr)
    /\ UNCHANGED <<key_buf, end_ptr, room, waiting, missed, got>>

(* update_newline_ptr: a loop with a test of the character and a test for  *)
(* the end, between any two of which the interrupt may come.               *)
scan_char ==
    /\ Reads("char", IF key_buf[newline_ptr] = "newline" THEN "out" ELSE "end")
    /\ UNCHANGED <<buffer, room, waiting, missed, typed, got>>

scan_end ==
    /\ Reads("end", IF newline_ptr = end_ptr THEN "clear" ELSE "char")
    /\ newline_ptr' = IF newline_ptr = end_ptr THEN newline_ptr ELSE NEXT(newline_ptr)
    /\ UNCHANGED <<key_buf, start_ptr, end_ptr, room, waiting, missed, typed, got>>

scan_clear ==
    /\ Reads("clear", "out")
    /\ newline_ptr' = -1
    /\ UNCHANGED <<key_buf, start_ptr, end_ptr, room, waiting, missed, typed, got>>

(* get_nextchar, for getchar, leaves newline_ptr alone and does not wrap.  *)
get_nextchar ==
    /\ Reads("take", "out")
    /\ got' = key_buf[start_ptr]
    /\ typed' = Tail(typed)
    /\ start_ptr' = start_ptr + 1
    /\ UNCHANGED <<key_buf, end_ptr, newline_ptr, room, waiting, missed>>
-----------------------------------------------------------------------------
(* Where the queue ends: a character is in it from the moment it is        *)
(* stored, although end_ptr moves later.                                   *)
tail == IF irq \in {"mark", "advance"} THEN NEXT(end_ptr) ELSE end_ptr

(* The code still knows where the next line ends.  It does not once        *)
(*   - getchar has moved start_ptr past the end of the array, or has taken *)
(*     the newline that newline_ptr still designates;                      *)
(*   - a backspace has erased that newline, or is about to while the       *)
(*     reader takes it;                                                    *)
(*   - update_newline_ptr has found a newline of an earlier round, or one  *)
(*     that the interrupt has moved or is about to mark again.             *)
(* The run queue is no longer a list once the reader is on it twice.       *)
Sound ==
    /\ reader_pc # "twice"
    /\ start_ptr < Size
    /\ reader_pc \in {"out", "test", "copy", "take", "skip"} /\ newline_ptr # -1 =>
          distance(start_ptr, newline_ptr) < distance(start_ptr, tail)
    /\ irq = "erase" /\ end_ptr # start_ptr => typed # <<>>

KeyboardNext ==
    /\ Sound
    /\ \/ enqueue_scancode \/ add_dropped \/ add_stored \/ add_marked
       \/ add_advanced \/ add_erased \/ enqueued
       \/ (\E len \in Length \cup {0} : read_call(len)) \/ read_test
       \/ wait_lock \/ wait_queue \/ wait_sleep
       \/ copy_char \/ copy_end \/ update_start_ptr
       \/ scan_char \/ scan_end \/ scan_clear
       \/ get_nextchar

KeyboardSpec == KeyboardInit /\ [][KeyboardNext]_keyboardVars
-----------------------------------------------------------------------------
(* The buffer is a queue as long as it is Sound: between start_ptr and its *)
(* end it holds, in order, what was typed and not yet taken, also after    *)
(* the indices have wrapped around, when it is full and while a readline   *)
(* and the interrupt are both at work.                                     *)
BufferIsQueue ==
    /\ distance(start_ptr, tail) = Len(typed)
    /\ \A k \in 1..Len(typed) : key_buf[(start_ptr + k - 1) % Size] = typed[k]

(* While newline_ptr designates a character of the queue and start_ptr is  *)
(* inside the array (Sound), get_nextline and get_nextchar return what was *)
(* typed, in order: each character they give is the next one of the queue, *)
(* whatever the interrupt stores or erases between two of them.  Nothing   *)
(* is said of what they return after the code has left that, which it does *)
(* in the cases that are listed at Sound.                                  *)
ReadsInOrder ==
    [][Sound /\ start_ptr' # start_ptr /\ reader_pc # "skip"
          => typed # <<>> /\ got' = typed[1]]_keyboardVars

=============================================================================
