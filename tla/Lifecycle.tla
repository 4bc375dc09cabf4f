----------------------------- MODULE Lifecycle -----------------------------
(***************************************************************************)
(* The three threads of adc-monitor from start to exit: main.c, the thread *)
(* of mainloop.c and the thread of api.c, with the two driver mutexes they *)
(* share and the way they are stopped. Both task threads can be cancelled  *)
(* at any instruction (PTHREAD_CANCEL_ASYNCHRONOUS), also while they hold a*)
(* mutex, which then stays locked for ever.                                *)
(*                                                                         *)
(* A thread is at one of a few places, enough to say which mutex it waits  *)
(* for or holds; one visit of a critical section stands for the many that  *)
(* a scan or a reply makes.                                                *)
(***************************************************************************)

Tasks   == {"mainloop", "api"}
Threads == {"main"} \cup Tasks
Mutexes == {"gpio", "adc"}

VARIABLES
    pc,           \* where each thread is
    owner,        \* of each mutex: a thread, free, or destroyed
    cancel,       \* the tasks whose cancellation is pending
    atexit,       \* free_all is registered and has not been called
    masked,       \* main is in the handler of SIGTERM: it takes no other
    ended,        \* the process has ended; its threads stay where they were
    handlers,     \* numbers of the GPIO lines: 0 at first, open, closed
    spidevs,      \* numbers of the ADC devices: -1 at first (none), open, closed
    trampled,     \* history: a mutex was initialised with a thread inside
    late,         \* history: gpio_init came during the gpio_clean of free_all or after it
    failed,       \* history: the main loop thread could not start, and cleaned
    reclosed      \* history: a number was closed that had been closed before

numbers == <<handlers, spidevs>>
history == <<trampled, late, failed, reclosed>>
exits   == <<atexit, masked, ended>>
vars    == <<pc, owner, cancel, exits, numbers, history>>

Init ==
    /\ pc = [t \in Threads |-> IF t = "main" THEN "start_mainloop" ELSE "none"]
    /\ owner = [m \in Mutexes |-> "free"]
    /\ cancel = {}
    /\ atexit = TRUE /\ masked = FALSE /\ ended = FALSE
    /\ handlers = "zero" /\ spidevs = "none"
    /\ trampled = FALSE /\ late = FALSE /\ failed = FALSE /\ reclosed = FALSE

-----------------------------------------------------------------------------
(* Threads and mutexes as pthreads has them; external *)

At(t, place)   == pc[t] = place
Go(t, place)   == pc' = [pc EXCEPT ![t] = place]
Alive(t)       == pc[t] \notin {"none", "dead"}
Running        == ~ended

\* A plausible slip: a lock that is tried and whose result nobody looks at.
SlipTryLock(t, m) == owner' = [owner EXCEPT ![m] = t]

\* Locking a destroyed mutex fails at once; no caller looks at the result.
Lock(t, m) ==
    /\ owner[m] \in {"free", "destroyed"}
    /\ owner' = IF owner[m] = "free" THEN [owner EXCEPT ![m] = t] ELSE owner

Unlock(m) ==
    owner' = IF owner[m] = "destroyed" THEN owner ELSE [owner EXCEPT ![m] = "free"]

\* The threads inside a critical section of m.
Sections(m) == IF m = "gpio" THEN {"init_in", "gpio_in", "drive"} ELSE {"adc_in"}
Inside(m)   == {t \in Threads : pc[t] \in Sections(m)}

\* pthread_mutex_init does not look at what the mutex was.
InitMutex(m) ==
    /\ owner' = [owner EXCEPT ![m] = "free"]
    /\ trampled' = (trampled \/ Inside(m) # {})

\* pthread_mutex_destroy refuses a locked mutex.
Destroyed(o) == IF o = "free" THEN "destroyed" ELSE o

\* The cancellation of t takes effect.
Cancelled(t) ==
    /\ Running /\ t \in cancel /\ Alive(t)
    /\ Go(t, "dead")
    /\ cancel' = cancel \ {t}
    /\ UNCHANGED <<owner, exits, numbers, history>>

-----------------------------------------------------------------------------
(* exit, as glibc runs it; external. The first thread that calls it is the one *)
(* that runs free_all, which is taken off the list before it is called: whoever *)
(* calls exit next, meanwhile or later, ends the process at once.               *)

exit(t) ==
    /\ IF atexit THEN Go(t, "stop_mainloop") /\ UNCHANGED ended
                 ELSE ended' = TRUE /\ UNCHANGED pc
    /\ atexit' = FALSE

\* free_all has returned.
exited(t) == Go(t, "gone") /\ ended' = TRUE

\* SIGTERM comes to the process, and sig_handler stays installed to its end. The
\* main thread takes it; one that comes while main runs the handler is masked
\* there, and a task takes it, whatever it is doing.
SIGTERM ==
    /\ \E t \in Threads :
           /\ Alive(t) /\ (t = "main") = ~masked
           /\ exit(t)
           /\ masked' = (masked \/ t = "main")
    /\ UNCHANGED <<owner, cancel, numbers, history>>

\* SIGSEGV in the API thread: json_get has come to the end of a chain of children
\* before their number is over, or json_parse to a parent that is NULL. The handler
\* calls exit there.
SIGSEGV ==
    /\ At("api", "idle")
    /\ exit("api")
    /\ UNCHANGED <<owner, cancel, masked, numbers, history>>

-----------------------------------------------------------------------------
(* main.c *)

mainloop_start ==
    /\ At("main", "start_mainloop")
    /\ pc' = [pc EXCEPT !["main"] = "start_api", !["mainloop"] = "start"]
    /\ UNCHANGED <<owner, cancel, exits, numbers, history>>

api_server_start ==
    /\ At("main", "start_api")
    /\ pc' = [pc EXCEPT !["main"] = "run", !["api"] = "idle"]
    /\ UNCHANGED <<owner, cancel, exits, numbers, history>>

\* A thread cannot be created (pthread_create gives up before it stores an id),
\* and main returns.
tasks_start_fails ==
    /\ pc["main"] \in {"start_mainloop", "start_api"}
    /\ exit("main")
    /\ UNCHANGED <<owner, cancel, masked, numbers, history>>

-----------------------------------------------------------------------------
(* free_all, by the thread that called exit first *)

\* Plausible slips: the thread is cancelled and not cleaned after, or cleaned
\* after and not cancelled.
SlipCancelOnly(t) ==
    /\ At(t, "stop_mainloop")
    /\ IF At("mainloop", "none")
         THEN Go(t, "stop_api") /\ UNCHANGED cancel
         ELSE Go(t, "join_mainloop") /\ cancel' = cancel \cup {"mainloop"}
    /\ UNCHANGED <<owner, exits, numbers, history>>

SlipCleanOnly(t) ==
    /\ At(t, "stop_mainloop")
    /\ Go(t, IF At("mainloop", "none") THEN "stop_api" ELSE "clean")
    /\ UNCHANGED <<owner, cancel, exits, numbers, history>>

\* mainloop_stop: nothing to do if the thread was never created. A thread that
\* cancels itself ends there, the main loop thread here.
mainloop_stop(t) ==
    /\ At(t, "stop_mainloop")
    /\ IF At("mainloop", "none") THEN Go(t, "stop_api") /\ UNCHANGED cancel
       ELSE IF t = "mainloop" THEN Go(t, "dead") /\ UNCHANGED cancel
       ELSE Go(t, "clean") /\ cancel' = cancel \cup {"mainloop"}
    /\ UNCHANGED <<owner, exits, numbers, history>>

\* A plausible slip: the clean is moved behind the join, and the call before the
\* cancellation is left where it was.
SlipCleanAfterJoin(t) ==
    /\ At(t, "join_mainloop") /\ ~Alive("mainloop")
    /\ Go(t, "clean")
    /\ UNCHANGED <<owner, cancel, exits, numbers, history>>

\* pthread_join, then api_server_stop.
mainloop_join(t) ==
    /\ At(t, "join_mainloop") /\ ~Alive("mainloop")
    /\ Go(t, "stop_api")
    /\ UNCHANGED <<owner, cancel, exits, numbers, history>>

\* The API thread cancels itself: free_all does not return, and the process stays.
\* The sockets that are shut down make the API thread end, which it may at any time.
api_server_stop(t) ==
    /\ At(t, "stop_api")
    /\ IF At("api", "none") THEN exited(t) /\ UNCHANGED cancel
       ELSE IF t = "api" THEN Go(t, "dead") /\ UNCHANGED <<cancel, ended>>
       ELSE Go(t, "join_api") /\ cancel' = cancel \cup {"api"} /\ UNCHANGED ended
    /\ UNCHANGED <<owner, atexit, masked, numbers, history>>

api_server_join(t) ==
    /\ At(t, "join_api") /\ ~Alive("api")
    /\ exited(t)
    /\ UNCHANGED <<owner, cancel, atexit, masked, numbers, history>>

-----------------------------------------------------------------------------
(* mainloop_clean, in free_all, and by the main loop thread when its *)
(* initialisation failed                                             *)

\* A plausible slip: whoever cleans then joins the thread, be it itself.
SlipJoinSelf(t) == "join_mainloop"

AfterClean(t) == IF t = "mainloop" THEN "dead" ELSE "join_mainloop"

\* What is open is closed, and its number kept: it is closed again next time,
\* whatever has the number then.
Closed(n)   == IF n = "open" THEN "closed" ELSE n
Recloses(n) == reclosed' = (reclosed \/ n = "closed")

gpio_clean_lock(t) ==
    /\ At(t, "clean") /\ Lock(t, "gpio")
    /\ Go(t, "drive")
    /\ UNCHANGED <<cancel, exits, numbers, history>>

\* The outputs are written, their handlers closed, and the mutex unlocked.
gpio_clean(t) ==
    /\ At(t, "drive") /\ Unlock("gpio")
    /\ handlers' = Closed(handlers) /\ Recloses(handlers)
    /\ Go(t, "destroy")
    /\ UNCHANGED <<cancel, exits, spidevs, trampled, late, failed>>

\* The end of gpio_clean, and adc_mcp3008_clean.
adc_mcp3008_clean(t) ==
    /\ At(t, "destroy")
    /\ owner' = [m \in Mutexes |-> Destroyed(owner[m])]
    /\ spidevs' = Closed(spidevs) /\ Recloses(spidevs)
    /\ Go(t, AfterClean(t))
    /\ UNCHANGED <<cancel, exits, handlers, trampled, late, failed>>

mainloop_clean(t) == gpio_clean_lock(t) \/ gpio_clean(t) \/ adc_mcp3008_clean(t)

free_all(t) ==
    mainloop_stop(t) \/ mainloop_clean(t) \/ mainloop_join(t)
      \/ api_server_stop(t) \/ api_server_join(t)

-----------------------------------------------------------------------------
(* The main loop thread *)

\* A plausible slip: an initialisation that failed is taken to have left nothing
\* to clean.
SlipEndOnly ==
    /\ Go("mainloop", "dead")
    /\ failed' = TRUE
    /\ UNCHANGED <<trampled, late, reclosed>>

\* An initialisation fails: the thread cleans and ends. The signal it sends goes
\* to the parent of the process, not to the process.
CleanAndEnd ==
    /\ Go("mainloop", "clean")
    /\ failed' = TRUE
    /\ UNCHANGED <<trampled, late, reclosed>>

\* sched_setattr fails.
mainloop_fails ==
    /\ At("mainloop", "start")
    /\ CleanAndEnd
    /\ UNCHANGED <<owner, cancel, exits, numbers>>

gpio_init ==
    /\ At("mainloop", "start")
    /\ InitMutex("gpio")
    /\ Go("mainloop", "init_wait")
    /\ UNCHANGED <<cancel, exits, numbers, late, failed, reclosed>>

\* The GPIO chip cannot be opened or read.
gpio_init_exits ==
    /\ At("mainloop", "start")
    /\ InitMutex("gpio")
    /\ exit("mainloop")
    /\ UNCHANGED <<cancel, masked, numbers, late, failed, reclosed>>

gpio_init_lock ==
    /\ At("mainloop", "init_wait") /\ Lock("mainloop", "gpio")
    /\ Go("mainloop", "init_in")
    /\ UNCHANGED <<cancel, exits, numbers, history>>

\* The lines are requested, all of them or those before one that fails: what
\* gpio_init returns is overwritten. From here on the outputs are driven.
gpio_init_request ==
    /\ At("mainloop", "init_in") /\ Unlock("gpio")
    /\ handlers' = "open"
    /\ late' = (late \/ \E t \in {"main", "api"} :
                            pc[t] \in {"drive", "destroy", "join_mainloop"})
    /\ Go("mainloop", "adc_init")
    /\ UNCHANGED <<cancel, exits, spidevs, trampled, failed, reclosed>>

\* adc_mcp3008_init: the mutex, then the wait for the devices.
adc_mcp3008_init ==
    /\ At("mainloop", "adc_init") /\ InitMutex("adc")
    /\ Go("mainloop", "mount")
    /\ UNCHANGED <<cancel, exits, numbers, late, failed, reclosed>>

\* The devices are there, at last, and some or all of them are opened; the first
\* that cannot be opened or configured is an error.
HwIsReady ==
    /\ At("mainloop", "mount")
    /\ spidevs' \in {"none", "open"}
    /\ \/ Go("mainloop", "adc_wait") /\ UNCHANGED history
       \/ CleanAndEnd
    /\ UNCHANGED <<owner, cancel, exits, handlers>>

\* Enter and leave the critical sections of the drivers.
Enter(t, from, m, to) ==
    /\ At(t, from) /\ Lock(t, m) /\ Go(t, to)
    /\ UNCHANGED <<cancel, exits, numbers, history>>

Leave(t, from, m, to) ==
    /\ At(t, from) /\ Unlock(m) /\ Go(t, to)
    /\ UNCHANGED <<cancel, exits, numbers, history>>

mainloop_exec ==
    \/ Enter("mainloop", "adc_wait", "adc", "adc_in")
    \/ Leave("mainloop", "adc_in", "adc", "gpio_wait")
    \/ Enter("mainloop", "gpio_wait", "gpio", "gpio_in")
    \/ Leave("mainloop", "gpio_in", "gpio", "adc_wait")

mainloop_thread ==
    \/ mainloop_fails
    \/ gpio_init \/ gpio_init_exits \/ gpio_init_lock \/ gpio_init_request
    \/ adc_mcp3008_init \/ mainloop_exec
    \/ free_all("mainloop")

-----------------------------------------------------------------------------
(* The API thread: waiting for a client or a request, or building a reply *)

\* A timeout or a request makes the thread look at the inputs.
ApiWakes ==
    /\ At("api", "idle")
    /\ Go("api", "gpio_wait")
    /\ UNCHANGED <<owner, cancel, exits, numbers, history>>

build_payload ==
    \/ Enter("api", "gpio_wait", "gpio", "gpio_in")
    \/ Leave("api", "gpio_in", "gpio", "adc_wait")
    \/ Enter("api", "adc_wait", "adc", "adc_in")
    \/ Leave("api", "adc_in", "adc", "idle")

\* The thread ends for good: an error of the sockets, or server_is_running is
\* false when it looks. The process goes on without it.
api_server_ends ==
    /\ At("api", "idle")
    /\ Go("api", "dead")
    /\ UNCHANGED <<owner, cancel, exits, numbers, history>>

-----------------------------------------------------------------------------
main       == mainloop_start \/ api_server_start \/ free_all("main")
api_thread == build_payload \/ free_all("api")

Next ==
    \/ /\ Running
       /\ \/ main \/ tasks_start_fails \/ SIGTERM \/ SIGSEGV
          \/ mainloop_thread \/ HwIsReady
          \/ ApiWakes \/ api_thread \/ api_server_ends
    \/ \E t \in Tasks : Cancelled(t)

Spec == Init /\ [][Next]_vars

\* Every thread that can run does, and a cancellation takes effect in the end.
\* A thread that waits for a mutex is woken at every unlock, and the sections
\* are short and far between (the API thread goes back to select): it gets the
\* mutex if it is free again and again. Nothing makes a client come, the devices
\* appear or a signal arrive.
FairSpec ==
    /\ Spec
    /\ WF_vars(Running /\ main)
    /\ WF_vars(Running /\ mainloop_thread)
    /\ WF_vars(Running /\ api_thread)
    /\ \A t \in Threads : SF_vars(Running /\ gpio_clean_lock(t))
    /\ \A t \in Tasks : WF_vars(Cancelled(t))
-----------------------------------------------------------------------------
(* Properties *)

CleanPlaces == {"clean", "drive", "destroy"}
StopPlaces  == CleanPlaces \cup {"stop_mainloop", "join_mainloop", "stop_api", "join_api"}
ExecPlaces  == {"adc_wait", "adc_in", "gpio_wait", "gpio_in"}

Places(t) ==
    CASE t = "main"     -> StopPlaces \cup {"start_mainloop", "start_api", "run", "gone"}
      [] t = "mainloop" -> CleanPlaces \cup ExecPlaces \cup
                           {"none", "start", "init_wait", "init_in", "adc_init", "mount",
                            "stop_mainloop", "dead"}
      [] t = "api"      -> (StopPlaces \ {"join_api"}) \cup ExecPlaces \cup {"none", "idle", "dead"}

\* Every thread is at a place of its own program, mutexes and tables have the
\* states the code gives them; only a task is ever cancelled.
TypeOK ==
    /\ DOMAIN pc = Threads /\ \A t \in Threads : pc[t] \in Places(t)
    /\ owner \in [Mutexes -> Threads \cup {"free", "destroyed"}]
    /\ cancel \subseteq Tasks
    /\ {atexit, masked, ended, trampled, late, failed, reclosed} \subseteq BOOLEAN
    /\ handlers \in {"zero", "open", "closed"}
    /\ spidevs \in {"none", "open", "closed"}

\* The drivers' comments call what a mutex protects a "Critical section". Two
\* threads are never inside one together, but for two reasons the code has no
\* answer to: a driver was initialised while a thread was inside, or the mutex
\* was destroyed by a clean that did not wait for the other threads.
ExclusiveUnlessReset ==
    trampled \/ \A m \in Mutexes :
                    owner[m] # "destroyed" => \A t, u \in Inside(m) : t = u

\* A thread is on its way out: in free_all, or cleaning after a failure.
Exiting(t) == pc[t] \in StopPlaces

\* In whatever order the threads were started, failed, exited and were cancelled,
\* the process ends with the outputs released. There are two exceptions: a thread
\* called exit while another, or itself, was not yet through with free_all, which
\* a second SIGTERM or a fault of the API thread does; or gpio_init came when the
\* lines were cleaned already.
SafeExit == ended => handlers # "open" \/ late \/ \E t \in Threads : Exiting(t)

\* mainloop.c 85-90: a main loop thread that has ended while the process goes on has
\* released the outputs, whichever of its initialisations failed and whatever the
\* API thread did meanwhile. If it was cancelled, by an exit of the API thread, that
\* thread releases them, unless gpio_init came after its clean.
DeadLoopReleases ==
    At("mainloop", "dead") /\ At("main", "run") =>
        handlers # "open" \/ Exiting("api") \/ late

\* The handlers are closed under the threads that use them, and keep their
\* numbers, as the devices do. A thread is at work on a closed one only while it
\* is being stopped: the main loop with its cancellation pending, the API thread
\* when main is at its end, or when the main loop could not start.
ClosedIsNotUsed ==
    /\ handlers = "closed" =>
        /\ At("mainloop", "gpio_in") => "mainloop" \in cancel
        /\ At("api", "gpio_in") => Exiting("main") \/ ended \/ failed
    /\ spidevs = "closed" /\ At("mainloop", "adc_in") => "mainloop" \in cancel

\* gpio.c 428 and adc_mcp3008.c 489 close a number and keep it. It is closed
\* twice, when it may be another's, only if the main loop could not start, cleaned,
\* and a thread then exits: an ordinary stop closes everything once.
ClosesOnceUnlessFailed == reclosed => failed

\* A thread that was cancelled inside a critical section left the mutex locked.
Orphaned == \E m \in Mutexes : owner[m] \in Tasks /\ pc[owner[m]] = "dead"

\* What free_all announces, "ending of the program": once main has begun to exit,
\* the process ends.
ShutdownCompletes == Exiting("main") ~> ended

\* What holds of it: the one thing that can keep a thread from getting through with
\* its exit, to the end of the process or, if it is a task, to its own, is a mutex
\* that a cancelled thread has left locked.
ShutdownOrOrphan ==
    \A t \in Threads : Exiting(t) ~> (ended \/ ~Alive(t) \/ Orphaned)
=============================================================================
