------------------------------- MODULE Kernel -------------------------------
(***************************************************************************)
(* The kernel's one processor: main code (src/src/main.rs, and the test    *)
(* runner of src/src/lib.rs), the handlers of src/src/interrupts.rs that   *)
(* interrupt it, the panic handlers, and the spin locks they share.        *)
(*                                                                         *)
(* An activation is the code it has still to run, a sequence of operations *)
(* that an interrupt may come between; the first activation of the stack   *)
(* runs.  A lock that is taken makes whoever wants it spin.                *)
(***************************************************************************)
EXTENDS Integers, FiniteSetsExt, SequencesExt

VARIABLES
    testing,      \* the kernel is built by cargo test; never changes
    stack,        \* the activations; saved: interrupt flags to go back to
    interrupts,   \* the interrupt flag of the processor
    held,         \* the locks that are taken
    ready,        \* which of the GDT with the TSS, the IDT, the PICs are set up
    irr, isr,     \* the PICs: interrupts that are requested, and in service
    quiet,        \* interrupts whose devices have not asked again yet
    failed,       \* a panic or a fault has happened, ...
    reported,     \* ... and has been shown
    abandoned,    \* auxiliary: locks that were taken when a failure came
    machine       \* "running", "exited" or "lost": see StackOverflow and Deliver

failure == << failed, abandoned >>
vars == << testing, stack, interrupts, held, ready, irr, isr, quiet, failure, reported, machine >>

Timer == 0       \* the lower line has the higher priority
Keyboard == 1
Irqs == {Timer, Keyboard}

\* on: "main", or "own" for the double fault handler's stack in the TSS.
Activation(code, saved, on) == [code |-> code, saved |-> saved, on |-> on]

-----------------------------------------------------------------------------
(* The code, by the operations that matter for locks and interrupts:       *)
(* "work" and "assert" are code that may panic or fault, and so are "show" *)
(* and "report", which format and write with a lock taken.                 *)

with_lock(lock, code) == << << "lock", lock >> >> \o code \o << << "unlock", lock >> >>

without_interrupts(code) == << << "save" >> >> \o code \o << << "restore" >> >>

\* Mutant of vga_print: interrupts stay on.
vga_print_Open(what) == with_lock("WRITER", << << what >> >>)

\* vga_buffer::_print; what is "show", or "report" for a failure.
vga_print(what) == without_interrupts(with_lock("WRITER", << << what >> >>))

\* serial::_print
serial_print(what) == without_interrupts(with_lock("SERIAL1", << << what >> >>))

hlt_loop == << << "hlt" >> >>

\* GlobalAlloc::alloc and dealloc; out of memory is a panic with the lock.
alloc == with_lock("ALLOCATOR", << << "work" >> >>)

\* Mutant of panic: the message is built on the heap.
panic_Alloc == alloc \o vga_print("report") \o hlt_loop

\* Mutant of panic: the kernel only stops.
panic_Silent == hlt_loop

\* The panic handlers of main.rs and, for tests, lib.rs.
panic ==
    IF testing
    THEN serial_print("report") \o serial_print("report") \o << << "exit" >> >> \o hlt_loop
    ELSE vga_print("report") \o hlt_loop

\* Mutant of timer_interrupt_handler: the PICs are not told.
timer_interrupt_handler_NoEnd == with_lock("PICS", << << "show" >> >>) \o << << "iret" >> >>

timer_interrupt_handler == with_lock("PICS", << << "end", Timer >> >>) \o << << "iret" >> >>

\* "decode": a scancode may complete no key, and nothing is shown.  The guard
\* of KEYBOARD is dropped at the end of the function.
keyboard_interrupt_handler ==
    with_lock("KEYBOARD",
        << << "decode", vga_print("show") >> >> \o with_lock("PICS", << << "end", Keyboard >> >>))
            \o << << "iret" >> >>

breakpoint_handler == vga_print("show") \o << << "iret" >> >>

page_fault_handler ==
    vga_print("report") \o vga_print("report") \o vga_print("report") \o vga_print("report") \o hlt_loop

double_fault_handler == << << "panic" >> >>

\* Mutant of init: interrupts are enabled before the PICs are remapped.
init_Early ==
    << << "setup", "gdt" >>, << "setup", "idt" >>, << "enable" >> >>
        \o with_lock("PICS", << << "setup", "pics" >> >>)

init ==
    << << "setup", "gdt" >>, << "setup", "idt" >> >>
        \o with_lock("PICS", << << "setup", "pics" >> >>) \o << << "enable" >> >>

\* kernel_main up to the shell, with the expect on init_heap; for tests
\* test_kernel_main, and the first line of test_runner.
boot ==
    IF testing THEN init \o serial_print("show")
    ELSE vga_print("show") \o init \o << << "work" >> >> \o alloc

\* test_println_output holds WRITER while it asserts.
test_println_output ==
    without_interrupts(with_lock("WRITER", << << "show" >>, << "assert" >> >>))

\* What main code does next: a call of the shell, the body of a test between
\* two lines on the serial port, or its end.
continuations ==
    IF testing
    THEN {serial_print("show") \o body \o serial_print("show") :
              body \in {vga_print("show"), << << "int3" >> >>, test_println_output, alloc}}
             \cup {<< << "exit" >> >> \o hlt_loop}
    ELSE {with_lock("FS", << << "work" >> >> \o alloc \o << << "work" >> >>) \o vga_print("show"),
          vga_print("show") \o hlt_loop}

\* Mutant of DoubleFaultStack: the handler runs on the stack it interrupts.
DoubleFaultStack_Same == "main"

\* set_stack_index: the double fault handler has a stack in the TSS.
DoubleFaultStack == "own"

-----------------------------------------------------------------------------
(* The processor.                                                          *)

Top == Head(stack)
Op == Head(Top.code)

\* The PICs pass on the highest request that is above all in service.
Deliverable == {i \in irr : i = Min(irr) /\ \A j \in isr : i < j}

\* The processor looks for interrupts before each operation.
Interrupted == interrupts /\ Deliverable # {}

At(names) ==
    /\ machine = "running"
    /\ ~Interrupted
    /\ Top.code # << >>
    /\ Op[1] \in names

\* A device asks again only after the code it has interrupted has gone on.
NotQuiet == quiet' = IF Len(stack) = 1 THEN {} ELSE quiet

Goto(code) == stack' = [stack EXCEPT ![1].code = code] /\ NotQuiet

Continue == Goto(Tail(Top.code))

\* An interrupt gate: the flag is saved and cleared.
Enter(handler, rest, on) ==
    /\ stack' = << Activation(handler, << interrupts >>, on), [Top EXCEPT !.code = rest] >> \o Tail(stack)
    /\ interrupts' = FALSE

\* There is no unwinding and no way back: the locks are never released.
Fail ==
    /\ failed' = TRUE
    /\ abandoned' = abandoned \cup held

Init ==
    /\ testing \in BOOLEAN
    /\ stack = << Activation(boot, << >>, "main") >>
    /\ interrupts = FALSE
    /\ held = {}
    /\ ready = {}
    /\ irr = {}
    /\ isr = {}
    /\ quiet = {}
    /\ failed = FALSE
    /\ reported = FALSE
    /\ abandoned = {}
    /\ machine = "running"

Lock ==
    /\ At({"lock"})
    /\ Op[2] \notin held
    /\ held' = held \cup {Op[2]}
    /\ Continue
    /\ UNCHANGED << interrupts, ready, irr, isr, failure, reported, machine >>

\* spin::Mutex: whoever wants a lock that is taken tries again.
Spin ==
    /\ At({"lock"})
    /\ Op[2] \in held
    /\ NotQuiet
    /\ UNCHANGED << stack, interrupts, held, ready, irr, isr, failure, reported, machine >>

Unlock ==
    /\ At({"unlock"})
    /\ held' = held \ {Op[2]}
    /\ Continue
    /\ UNCHANGED << interrupts, ready, irr, isr, failure, reported, machine >>

Save ==
    /\ At({"save"})
    /\ stack' = [stack EXCEPT ![1] = Activation(Tail(@.code), << interrupts >> \o @.saved, @.on)]
    /\ interrupts' = FALSE
    /\ NotQuiet
    /\ UNCHANGED << held, ready, irr, isr, failure, reported, machine >>

Restore ==
    /\ At({"restore"})
    /\ stack' = [stack EXCEPT ![1] = Activation(Tail(@.code), Tail(@.saved), @.on)]
    /\ interrupts' = Head(Top.saved)
    /\ NotQuiet
    /\ UNCHANGED << held, ready, irr, isr, failure, reported, machine >>

Iret ==
    /\ At({"iret"})
    /\ stack' = Tail(stack)
    /\ interrupts' = Head(Top.saved)
    /\ UNCHANGED << held, ready, irr, isr, quiet, failure, reported, machine >>

Enable ==
    /\ At({"enable"})
    /\ interrupts' = TRUE
    /\ Continue
    /\ UNCHANGED << held, ready, irr, isr, failure, reported, machine >>

Setup ==
    /\ At({"setup"})
    /\ ready' = ready \cup {Op[2]}
    /\ Continue
    /\ UNCHANGED << interrupts, held, irr, isr, failure, reported, machine >>

\* notify_end_of_interrupt
End ==
    /\ At({"end"})
    /\ isr' = isr \ {Op[2]}
    /\ Continue
    /\ UNCHANGED << interrupts, held, ready, irr, failure, reported, machine >>

Show ==
    /\ At({"show", "report"})
    /\ reported' = (reported \/ Op[1] = "report")
    /\ Continue
    /\ UNCHANGED << interrupts, held, ready, irr, isr, failure, machine >>

Decode ==
    /\ At({"decode"})
    /\ \E shown \in {<< >>, Op[2]} : Goto(shown \o Tail(Top.code))
    /\ UNCHANGED << interrupts, held, ready, irr, isr, failure, reported, machine >>

Work ==
    /\ At({"work", "assert"})
    /\ Continue
    /\ UNCHANGED << interrupts, held, ready, irr, isr, failure, reported, machine >>

\* The guards of the code that panics are not dropped.
Panic ==
    /\ At({"show", "report", "work", "assert", "panic"})
    /\ stack' = [stack EXCEPT ![1] = Activation(panic, << >>, @.on)]
    /\ Fail
    /\ NotQuiet
    /\ UNCHANGED << interrupts, held, ready, irr, isr, reported, machine >>

\* Without the IDT the machine resets.
PageFault ==
    /\ At({"show", "report", "work", "assert"})
    /\ Enter(page_fault_handler, Top.code, Top.on)
    /\ Fail
    /\ machine' = IF "idt" \in ready THEN machine ELSE "lost"
    /\ UNCHANGED << held, ready, irr, isr, quiet, reported >>

\* The page fault of the guard page cannot be handled on the same stack.  If
\* the double fault cannot either, the machine resets.  The stack of the
\* double fault handler is large enough for it.
StackOverflow ==
    /\ At({"setup", "end", "show", "report", "decode", "work", "assert"})
    /\ Top.on = "main"
    /\ Enter(double_fault_handler, Top.code, DoubleFaultStack)
    /\ Fail
    /\ machine' = IF DoubleFaultStack = "own" /\ {"gdt", "idt"} \subseteq ready THEN machine ELSE "lost"
    /\ UNCHANGED << held, ready, irr, isr, quiet, reported >>

Int3 ==
    /\ At({"int3"})
    /\ Enter(breakpoint_handler, Tail(Top.code), Top.on)
    /\ UNCHANGED << held, ready, irr, isr, quiet, failure, reported, machine >>

\* exit_qemu
Exit ==
    /\ At({"exit"})
    /\ machine' = "exited"
    /\ Continue
    /\ UNCHANGED << interrupts, held, ready, irr, isr, failure, reported >>

\* The processor sleeps until the next interrupt, and sleeps again.
Hlt ==
    /\ At({"hlt"})
    /\ NotQuiet
    /\ UNCHANGED << stack, interrupts, held, ready, irr, isr, failure, reported, machine >>

MainContinues ==
    /\ machine = "running"
    /\ ~Interrupted
    /\ Top.code = << >>
    /\ \E code \in continuations : Goto(code)
    /\ UNCHANGED << interrupts, held, ready, irr, isr, failure, reported, machine >>

\* Before the PICs are remapped their vectors are those of exceptions.
Deliver ==
    /\ machine = "running"
    /\ Interrupted
    /\ LET i == Min(irr)
       IN  /\ irr' = irr \ {i}
           /\ isr' = isr \cup {i}
           /\ Enter(IF i = Timer THEN timer_interrupt_handler ELSE keyboard_interrupt_handler,
                    Top.code, Top.on)
    /\ machine' = IF ready = {"gdt", "idt", "pics"} THEN machine ELSE "lost"
    /\ UNCHANGED << held, ready, quiet, failure, reported >>

\* A device asks for an interrupt, at any time.
Raise(i) ==
    /\ machine = "running"
    /\ i \notin quiet
    /\ irr' = irr \cup {i}
    /\ quiet' = quiet \cup {i}
    /\ UNCHANGED << testing, stack, interrupts, held, ready, isr, failure, reported, machine >>

\* After exit_qemu nothing runs.
Stopped == machine # "running" /\ UNCHANGED vars

Processor ==
    /\ UNCHANGED testing
    /\ \/ Lock \/ Spin \/ Unlock \/ Save \/ Restore \/ Iret \/ Enable \/ Setup \/ End \/ Show \/ Decode
       \/ Work \/ Panic \/ PageFault \/ StackOverflow \/ Int3 \/ Exit \/ Hlt \/ MainContinues \/ Deliver

Next == Processor \/ Stopped \/ \E i \in Irqs : Raise(i)

\* The processor runs on; devices need not ask.
Spec == Init /\ [][Next]_vars /\ WF_vars(Processor)

-----------------------------------------------------------------------------
Waits == machine = "running" /\ Top.code # << >> /\ Op[1] = "lock" /\ Op[2] \in held

\* A failure in the middle of a print leaves its lock taken for good.
PrintAbandoned == Op[2] \in abandoned \cap {"WRITER", "SERIAL1"}

\* No code ever spins on a lock that code below it on the stack has taken and
\* cannot release: interrupts may come anywhere, and a failure with any locks
\* taken, and still handlers want none of those.  The exception is a failure
\* inside a print, whose lock the handler of the failure may then wait for.
NoSelfDeadlock == Waits => PrintAbandoned

\* A fault before the IDT is loaded resets the machine.
LostEarly == machine = "lost" /\ failed /\ "idt" \notin ready

\* No interrupt comes before init has set up what it needs, and every fault
\* from there on, also a stack overflow in the middle of an allocation or of
\* an interrupt handler, reaches its handler.
NeverLost == machine = "lost" => LostEarly

\* An interrupt that is requested, even before init enables interrupts, is
\* served and ended, so that the PICs pass on the next one of its line.
InterruptsServed ==
    \A i \in Irqs : i \in irr \cup isr ~> (i \notin irr \cup isr \/ failed \/ machine = "exited")

\* Whatever interrupts come and whatever other locks are taken, a panic, a
\* page fault or a stack overflow is shown, unless it comes before the IDT is
\* loaded, or inside a print whose lock the report needs: then the handler
\* waits for that lock with nothing shown.
FailureReported ==
    failed ~> (reported \/ (Waits /\ PrintAbandoned) \/ LostEarly)
=============================================================================
