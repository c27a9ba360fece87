------------------------------- MODULE Clock --------------------------------
(***************************************************************************)
(* Time on counters that wrap: the 32-bit timer of camera/systime.c, the   *)
(* free-running counter of uip-1.0/smsc9118.c, and the 16-bit tick count   *)
(* that barcode/main.c extends to 32 bits by software.  Wrap stands for    *)
(* the range of the counter (2^32 or 2^16), Epochs for the range of the    *)
(* software part (2^16).                                                   *)
(***************************************************************************)
EXTENDS Integers

CONSTANTS Wrap, Epochs

ASSUME WrapAssumption == Wrap \in Nat \ {0, 1} /\ Epochs \in Nat \ {0}

(* getSysTICs adds the ticks since the last reading of the timer. *)
getSysTICs(sysTICs, lastT0TC, now) == (sysTICs + ((now - lastT0TC) % Wrap)) % Wrap

(* getElapsedSysTICs: the difference of two unsigned readings. *)
getElapsedSysTICs(now, start) == (now - start) % Wrap

(* One reading of lan9118_udelay's loop: after the wrap it adds one to a    *)
(* difference that the unsigned subtraction has already got right.          *)
udelayElapsed(now, start) ==
    IF now >= start THEN now - start ELSE (now - start + 1) % Wrap

(* Mutant: the wrap of ticks is not carried. *)
counter_read_noCarry(counter, previous, ticks) == (counter - (counter % Wrap)) + ticks

(* counter_read: the last counter and the last reading of ticks, and ticks. *)
counter_read(counter, previous, ticks) ==
    LET c == (counter - (counter % Wrap)) + ticks
    IN (IF ticks < previous THEN c + Wrap ELSE c) % (Wrap * Epochs)

(* timer_elapsed and timer_restart on the extended counter. *)
timer_elapsed(counter, i) == (counter - i) % (Wrap * Epochs)
timer_restart(i, t) == (i + t) % (Wrap * Epochs)
=============================================================================
