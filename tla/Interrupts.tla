---------------------------- MODULE Interrupts ----------------------------
(***************************************************************************)
(* The dispatch of interrupts in threads/interrupt.c and the exception     *)
(* handlers of userprog/exception.c, on the processor and the interrupt    *)
(* controller that they run on.                                            *)
(*                                                                         *)
(* Every thread has a stack of interrupt frames.  Its bottom is the user   *)
(* program; the code of a frame runs in the kernel.  Frames of one thread  *)
(* stay where they are while another thread runs.                          *)
(***************************************************************************)
EXTENDS Integers, Sequences, FiniteSets

CONSTANTS
  IThreads,    \* the threads
  IAddrs,      \* addresses that fault
  ILines,      \* the external vectors that devices raise
  IDepth       \* bound: frames on a stack

(* The vectors in use: a divide error, a page fault, a protection fault,   *)
(* the timer, the keyboard, a spurious interrupt of each controller, a     *)
(* device without a handler, and the system call.                          *)
Exceptions == {0, 14}
External == {32, 33, 39, 46, 47}
Vectors == Exceptions \cup External \cup {13, 48}
NOADDR == 0

VARIABLES
  handlers,          \* intr_handlers, "" for none
  idt,               \* the gates: [trap, dpl]
  IF_,               \* the interrupt flag
  in_external_intr,
  yield_on_return,
  frames,            \* the stack of each thread, its top first
  run,               \* the running thread
  level,             \* the old_level that a thread in thread_yield restores
  irr, isr,          \* interrupts that wait for, and are in, service
  cr2,
  dead               \* threads that were killed

tables == <<handlers, idt>>
intrVars == <<handlers, idt, IF_, in_external_intr, yield_on_return, frames, run,
              level, irr, isr, cr2, dead>>

Top(t) == Head(frames[t])
InKernel(t) == frames[t] # <<>>
IsExternal(v) == v >= 32 /\ v < 48

-----------------------------------------------------------------------------
(* Registration.                                                           *)

make_gate(dpl, trap) == [dpl |-> dpl, trap |-> trap]

(* Fault: every gate leaves interrupts on.                                 *)
register_handlerTrap(tab, vec, dpl, on, handler) ==
  [h |-> [tab.h EXCEPT ![vec] = handler],
   g |-> [tab.g EXCEPT ![vec] = make_gate(dpl, ~IsExternal(vec))]]

register_handler(tab, vec, dpl, on, handler) ==
  [h |-> [tab.h EXCEPT ![vec] = handler],
   g |-> [tab.g EXCEPT ![vec] = make_gate(dpl, on)]]

intr_register_ext(tab, vec, handler) == register_handler(tab, vec, 0, FALSE, handler)

(* The tables that intr_init builds.                                       *)
intr_init == [h |-> [v \in Vectors |-> ""], g |-> [v \in Vectors |-> make_gate(0, FALSE)]]

exception_init(tab) ==
  LET t0 == register_handler(tab, 0, 0, TRUE, "kill")
      t1 == register_handler(t0, 13, 0, TRUE, "kill")
  IN  register_handler(t1, 14, 0, FALSE, "page_fault")

(* What main registers, in its order: timer_init, kbd_init, exception_init *)
(* and syscall_init.                                                       *)
Registered ==
  register_handler(
    exception_init(
      intr_register_ext(intr_register_ext(intr_init, 32, "timer"), 33, "keyboard")),
    48, 3, TRUE, "syscall")

IntrInit ==
  /\ handlers = Registered.h
  /\ idt = Registered.g
  /\ IF_ = TRUE
  /\ in_external_intr = FALSE
  /\ yield_on_return = FALSE
  /\ frames = [t \in IThreads |-> <<>>]
  /\ run = CHOOSE t \in IThreads : TRUE
  /\ level = [t \in IThreads |-> TRUE]
  /\ irr = {} /\ isr = {}
  /\ cr2 = NOADDR
  /\ dead = {}

-----------------------------------------------------------------------------
(* The processor and the interrupt controller.                             *)

(* An interrupt enters through its gate: the frame keeps the flag.         *)
Enter(vec, addr) ==
  /\ Len(frames[run]) < IDepth
  /\ frames' = [frames EXCEPT ![run] =
       <<[vec |-> vec, pc |-> "stub", flag |-> IF_, user |-> ~InKernel(run),
          cause |-> addr, fault_addr |-> NOADDR]>> \o @]
  /\ IF_' = (IF_ /\ idt[vec].trap)

(* A device raises its line.                                               *)
Raise(irq) ==
  /\ irq \notin irr
  /\ irr' = irr \cup {irq}
  /\ UNCHANGED <<tables, IF_, in_external_intr, yield_on_return, frames, run, level,
                 isr, cr2, dead>>

(* A line is served unless one of at least its priority is in service.     *)
Deliver(irq) ==
  /\ IF_ /\ irq \in irr
  /\ \A s \in isr : irq < s
  /\ Enter(irq, NOADDR)
  /\ irr' = irr \ {irq}
  /\ isr' = isr \cup {irq}
  /\ UNCHANGED <<tables, in_external_intr, yield_on_return, run, level, cr2, dead>>

(* User code, or a system call that touches user memory, faults.           *)
PageFault(addr) ==
  /\ InKernel(run) => Top(run).vec = 48 /\ Top(run).pc = "handler"
  /\ cr2' = addr
  /\ Enter(14, addr)
  /\ UNCHANGED <<tables, in_external_intr, yield_on_return, run, level, irr, isr, dead>>

(* User code executes INT vec, a general protection fault where the gate   *)
(* is not open to it, or divides by zero.                                  *)
SoftwareInterrupt(vec) ==
  /\ ~InKernel(run)
  /\ Enter(IF idt[vec].dpl = 3 THEN vec ELSE 13, NOADDR)
  /\ UNCHANGED <<tables, in_external_intr, yield_on_return, run, level, irr, isr, cr2, dead>>

Divide ==
  /\ ~InKernel(run)
  /\ Enter(0, NOADDR)
  /\ UNCHANGED <<tables, in_external_intr, yield_on_return, run, level, irr, isr, cr2, dead>>

-----------------------------------------------------------------------------
(* intr_handler.                                                           *)

Goto(pc) == [frames EXCEPT ![run] = <<[Top(run) EXCEPT !.pc = pc]>> \o Tail(@)]
At(pc) == InKernel(run) /\ Top(run).pc = pc

(* Its beginning, up to the call of the handler.                           *)
HandlerEnter ==
  /\ At("stub")
  /\ IF IsExternal(Top(run).vec)
     THEN in_external_intr' = TRUE /\ yield_on_return' = FALSE
     ELSE UNCHANGED <<in_external_intr, yield_on_return>>
  /\ frames' = Goto("handler")
  /\ UNCHANGED <<tables, IF_, run, level, irr, isr, cr2, dead>>

(* The handler of a device.  The timer's may ask for a yield; a spurious   *)
(* interrupt and one without a handler change nothing here.                *)
DeviceHandler(asks) ==
  /\ At("handler") /\ IsExternal(Top(run).vec)
  /\ asks => handlers[Top(run).vec] = "timer"
  /\ yield_on_return' = (yield_on_return \/ asks)
  /\ frames' = Goto("done")
  /\ UNCHANGED <<tables, IF_, in_external_intr, run, level, irr, isr, cr2, dead>>

(* page_fault: reads CR2 ...                                               *)
PageFaultRead ==
  /\ At("handler") /\ handlers[Top(run).vec] = "page_fault"
  /\ frames' = [frames EXCEPT ![run] =
       <<[Top(run) EXCEPT !.fault_addr = cr2, !.pc = "read"]>> \o Tail(@)]
  /\ UNCHANGED <<tables, IF_, in_external_intr, yield_on_return, run, level, irr, isr,
                 cr2, dead>>

(* ... and only then turns interrupts on.                                  *)
PageFaultEnable ==
  /\ At("read")
  /\ IF_' = TRUE
  /\ frames' = Goto("kill")
  /\ UNCHANGED <<tables, in_external_intr, yield_on_return, run, level, irr, isr, cr2, dead>>

(* The running thread gives way to u, which comes out of thread_yield and  *)
(* restores its level, or starts with interrupts on.                       *)
SwitchTo(u) ==
  /\ u \in IThreads \ (dead \cup {run})
  /\ run' = u
  /\ IF_' = level[u]

(* kill, of a thread that was in user mode: thread_exit.                   *)
Kill(u) ==
  /\ At("kill") \/ (At("handler") /\ handlers[Top(run).vec] = "kill")
  /\ Top(run).user
  /\ SwitchTo(u)
  /\ dead' = dead \cup {run}
  /\ frames' = [frames EXCEPT ![run] = <<>>]
  /\ UNCHANGED <<tables, in_external_intr, yield_on_return, level, irr, isr, cr2>>

(* kill, of the kernel's own code: a panic.  The machine stops.            *)
KernelBug ==
  /\ At("kill") /\ ~Top(run).user
  /\ dead' = IThreads
  /\ frames' = [frames EXCEPT ![run] = <<>>]
  /\ IF_' = FALSE
  /\ UNCHANGED <<tables, in_external_intr, yield_on_return, run, level, irr, isr, cr2>>

(* The system call returns.                                                *)
SyscallHandler ==
  /\ At("handler") /\ handlers[Top(run).vec] = "syscall"
  /\ frames' = Goto("done")
  /\ UNCHANGED <<tables, IF_, in_external_intr, yield_on_return, run, level, irr, isr,
                 cr2, dead>>

(* The end of intr_handler.  An external interrupt leaves its context, is  *)
(* acknowledged, and may call thread_yield, with interrupts off.           *)
pic_end_of_interrupt(vec) == isr' = isr \ {vec}

(* Fault: the yield comes before the acknowledgement.                      *)
HandlerLeaveUnacknowledged(u) ==
  /\ At("done") /\ IsExternal(Top(run).vec)
  /\ in_external_intr' = FALSE
  /\ IF yield_on_return /\ u # run
     THEN /\ level' = [level EXCEPT ![run] = FALSE]
          /\ SwitchTo(u)
          /\ UNCHANGED isr
     ELSE pic_end_of_interrupt(Top(run).vec) /\ UNCHANGED <<level, run, IF_>>
  /\ frames' = Goto("iret")
  /\ UNCHANGED <<tables, yield_on_return, irr, cr2, dead>>

HandlerLeave(u) ==
  /\ At("done") /\ IsExternal(Top(run).vec)
  /\ in_external_intr' = FALSE
  /\ pic_end_of_interrupt(Top(run).vec)
  /\ IF yield_on_return /\ u # run
     THEN level' = [level EXCEPT ![run] = FALSE] /\ SwitchTo(u)
     ELSE UNCHANGED <<level, run, IF_>>
  /\ frames' = Goto("iret")
  /\ UNCHANGED <<tables, yield_on_return, irr, cr2, dead>>

HandlerLeaveInternal ==
  /\ At("done") /\ ~IsExternal(Top(run).vec)
  /\ frames' = Goto("iret")
  /\ UNCHANGED <<tables, IF_, in_external_intr, yield_on_return, run, level, irr, isr,
                 cr2, dead>>

(* intr_exit of the stubs: the frame goes, its flag comes back.            *)
Return ==
  /\ At("iret")
  /\ IF_' = Top(run).flag
  /\ frames' = [frames EXCEPT ![run] = Tail(@)]
  /\ UNCHANGED <<tables, in_external_intr, yield_on_return, run, level, irr, isr, cr2, dead>>

(* A system call yields, as a semaphore that is down makes it.             *)
KernelYield(u) ==
  /\ At("handler") /\ handlers[Top(run).vec] = "syscall"
  /\ level' = [level EXCEPT ![run] = IF_]
  /\ SwitchTo(u)
  /\ UNCHANGED <<tables, in_external_intr, yield_on_return, frames, irr, isr, cr2, dead>>

IntrNext ==
  /\ run \notin dead
  /\ \/ \E irq \in ILines : Raise(irq) \/ Deliver(irq)
     \/ \E addr \in IAddrs : PageFault(addr)
     \/ \E vec \in {14, 48} : SoftwareInterrupt(vec)
     \/ Divide
     \/ HandlerEnter
     \/ \E asks \in BOOLEAN : DeviceHandler(asks)
     \/ PageFaultRead \/ PageFaultEnable
     \/ \E u \in IThreads : Kill(u) \/ HandlerLeave(u) \/ KernelYield(u)
     \/ KernelBug
     \/ SyscallHandler
     \/ HandlerLeaveInternal
     \/ Return

-----------------------------------------------------------------------------
(* CR2 is shared by all threads, and a fault of another one overwrites it: *)
(* page_fault still reports the address of the fault that called it,       *)
(* because its gate keeps interrupts off until the address is read, and    *)
(* because user programs cannot call it.                                   *)
FaultAddressOwn ==
  \A t \in IThreads : \A i \in 1..Len(frames[t]) :
    frames[t][i].pc \in {"read", "kill"} => frames[t][i].fault_addr = frames[t][i].cause

(* The frames whose device handler is running.                             *)
InHandler == {<<t, i>> \in IThreads \X (1..IDepth) :
                /\ i <= Len(frames[t])
                /\ IsExternal(frames[t][i].vec)
                /\ frames[t][i].pc \in {"handler", "done"}}

(* External interrupts never nest, and none outlives the time that its     *)
(* thread runs: in_external_intr is true exactly while one handler of a    *)
(* device runs, on top of the running thread, with interrupts off, and no  *)
(* line stays in service, deaf to its device, once the handler has left.   *)
(* The assertions of intr_handler and of intr_enable are instances of it.  *)
ContextExact ==
  /\ in_external_intr <=> InHandler # {}
  /\ InHandler \subseteq {<<run, 1>>}
  /\ in_external_intr => ~IF_
  /\ isr = {frames[run][i].vec : i \in {j \in 1..Len(frames[run]) :
              IsExternal(frames[run][j].vec) /\ frames[run][j].pc # "iret"}}
=============================================================================
