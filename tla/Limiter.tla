------------------------------ MODULE Limiter ------------------------------
(***************************************************************************)
(* asyncio.Semaphore, as the limiters of a run use it: a released slot is  *)
(* handed to the first waiter, which runs later, and until it has run      *)
(* nobody else takes a slot at once, even if one is free.                  *)
(***************************************************************************)
EXTENDS Naturals, Sequences

NewLimiter(slots) == [free |-> slots, waiting |-> <<>>, granted |-> {}]

TakesAtOnce(sem) == sem.free > 0 /\ sem.waiting = <<>> /\ sem.granted = {}

Take(sem)    == [sem EXCEPT !.free = @ - 1]
Wait(sem, w) == [sem EXCEPT !.waiting = Append(@, w)]

WakeUpNext(sem) ==
    IF sem.free = 0 \/ sem.waiting = <<>> THEN sem
    ELSE [free |-> sem.free - 1, waiting |-> Tail(sem.waiting),
          granted |-> sem.granted \union {Head(sem.waiting)}]

(* Mutant: the slot that is handed over stays free as well.                *)
ReleaseTwice(sem) ==
    [WakeUpNext([sem EXCEPT !.free = @ + 1]) EXCEPT !.free = sem.free + 1]

(* Mutant: nobody is woken.                                                *)
ReleaseUnseen(sem) == [sem EXCEPT !.free = @ + 1]

Release(sem) == WakeUpNext([sem EXCEPT !.free = @ + 1])

(* A waiter that was handed a slot runs, and wakes one of those that came  *)
(* while it was due, if there is a slot for it.                            *)
Resume(sem, w) == WakeUpNext([sem EXCEPT !.granted = @ \ {w}])
=============================================================================
