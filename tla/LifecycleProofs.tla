-------------------------- MODULE LifecycleProofs --------------------------
(***************************************************************************)
(* What holds of the three threads in every interleaving of their steps,   *)
(* their failures and their cancellation. Lifecycle has no constants: TLC  *)
(* has looked at all of its states, and these proofs say why. The argument *)
(* is one invariant that ties the numbers to the places of the two threads *)
(* that can close them, and a lock to the thread inside.                   *)
(***************************************************************************)
EXTENDS Lifecycle, TLAPS

StartPlaces == {"start_mainloop", "start_api", "run"}

\* The places of the threads, one by one.
PlacesOK ==
    /\ DOMAIN pc = Threads
    /\ pc["main"] \in Places("main")
    /\ pc["mainloop"] \in Places("mainloop")
    /\ pc["api"] \in Places("api")

OwnersOK == owner \in [Mutexes -> Threads \cup {"free", "destroyed"}]

ValuesOK ==
    /\ cancel \subseteq Tasks
    /\ {atexit, masked, ended, trampled, late, failed, reclosed} \subseteq BOOLEAN
    /\ handlers \in {"zero", "open", "closed"}
    /\ spidevs \in {"none", "open", "closed"}

Shape == PlacesOK /\ OwnersOK /\ ValuesOK

\* The threads that can get beyond the first step of free_all.
Runners == {"main", "api"}

\* One thread runs free_all, if any; before it nobody is cancelled, and no thread is
\* there before the one that was started first.
OneExit ==
    /\ atexit => /\ pc["main"] \in StartPlaces /\ "mainloop" \notin cancel
                 /\ ~masked /\ ~ended
    /\ atexit \/ pc["main"] \notin StartPlaces =>
          ~Exiting("api") /\ pc["mainloop"] # "stop_mainloop"
    /\ Exiting("api") => pc["mainloop"] # "stop_mainloop"
    /\ pc["main"] = "gone" => ended
    /\ "api" \in cancel => pc["main"] \notin StartPlaces
    /\ pc["main"] = "start_mainloop" => atexit /\ pc["mainloop"] = "none"
    /\ pc["main"] \in {"start_api", "run"} => pc["mainloop"] # "none"
    /\ pc["mainloop"] = "none" => pc["api"] = "none"
    /\ pc["main"] = "start_api" => pc["api"] = "none"

\* While a thread stops the main loop, its cancellation is pending or has taken
\* effect; afterwards the thread has ended.
WhileStopping ==
    \A t \in Runners :
        /\ pc[t] \in CleanPlaces \cup {"join_mainloop"} =>
              "mainloop" \in cancel \/ pc["mainloop"] = "dead"
        /\ pc[t] \in {"stop_api", "join_api", "gone"} => pc["mainloop"] \in {"none", "dead"}

\* The main loop thread cleans only when it could not start.
CleansWhenFailed == pc["mainloop"] \in CleanPlaces => failed

\* The lines are not open before they are requested, nor after a clean.
OpenLines ==
    /\ pc["mainloop"] \in {"none", "start", "init_wait", "init_in", "stop_mainloop"} =>
            handlers # "open"
    /\ pc["mainloop"] = "none" => handlers = "zero"
    /\ pc["mainloop"] = "destroy" => handlers # "open"
    /\ pc["mainloop"] = "dead" /\ atexit => handlers # "open"
    /\ \A t \in Runners :
          pc[t] \in {"destroy", "join_mainloop", "stop_api", "join_api", "gone"} =>
              handlers # "open" \/ late

\* Once free_all has been called, somebody is at it, or it has done what it should.
Released ==
    ~atexit => \/ Exiting("main") \/ Exiting("api") \/ pc["mainloop"] = "stop_mainloop"
               \/ pc["mainloop"] \in {"none", "dead"} /\ (handlers # "open" \/ late)

\* The API thread has run free_all, and has cancelled itself.
ApiHasStopped ==
    ~atexit /\ pc["main"] \in StartPlaces /\ pc["api"] = "dead" /\ pc["mainloop"] = "dead"

\* Who has closed what is closed.
ClosedLines ==
    handlers = "closed" =>
        \/ \E t \in Runners :
              pc[t] \in {"destroy", "join_mainloop", "stop_api", "join_api", "gone"}
        \/ ApiHasStopped
        \/ pc["mainloop"] \in {"destroy", "dead"} /\ failed

ClosedDevices ==
    spidevs = "closed" =>
        \/ \E t \in Runners : pc[t] \in {"join_mainloop", "stop_api", "join_api", "gone"}
        \/ ApiHasStopped
        \/ pc["mainloop"] = "dead" /\ failed

Stops   == OneExit /\ WhileStopping /\ CleansWhenFailed
Opens   == OpenLines /\ Released
Closes  == ClosedLines /\ ClosedDevices /\ ClosesOnceUnlessFailed

\* A thread in a critical section owns the mutex, unless it was reset under it.
OwnersInside ==
    trampled \/ \A m \in Mutexes :
                    owner[m] # "destroyed" => \A t \in Inside(m) : owner[m] = t

IInv == Shape /\ Stops /\ Opens /\ Closes /\ OwnersInside

USE DEF Threads, Tasks, Mutexes, At, Go, Alive, Running, numbers, history, exits,
        CleanPlaces, StopPlaces, StartPlaces, ExecPlaces, Runners, Exiting

\* main starts the threads: nothing is closed yet.
LEMMA StartKeepsInv ==
    ASSUME IInv, Running, mainloop_start \/ api_server_start
    PROVE  IInv'
<1> USE DEF mainloop_start, api_server_start
<1>1. Shape'
  BY DEF IInv, Shape, PlacesOK, OwnersOK, ValuesOK, Places
<1>2. Stops'
  BY DEF IInv, Shape, PlacesOK, ValuesOK, Places,
         Stops, OneExit, WhileStopping, CleansWhenFailed
<1>3. Opens'
  BY DEF IInv, Shape, PlacesOK, ValuesOK, Places,
         Stops, OneExit, WhileStopping, CleansWhenFailed,
         Opens, OpenLines, Released
<1>4. Closes'
  BY DEF IInv, Shape, PlacesOK, ValuesOK, Places,
         Stops, OneExit, WhileStopping, CleansWhenFailed,
         Opens, OpenLines, Released,
         Closes, ClosedLines, ApiHasStopped, ClosedDevices,
         ClosesOnceUnlessFailed
<1>5. OwnersInside'
  BY DEF IInv, Shape, PlacesOK, OwnersOK, ValuesOK, OwnersInside, Inside, Sections
<1>6. QED
  BY <1>1, <1>2, <1>3, <1>4, <1>5 DEF IInv

\* A thread calls exit: it is the first and runs free_all, or the process ends.
LEMMA ExitKeepsInv ==
    ASSUME IInv, Running, tasks_start_fails \/ SIGTERM \/ SIGSEGV
    PROVE  IInv'
<1> USE DEF tasks_start_fails, SIGTERM, SIGSEGV, exit
<1>1. Shape'
  <2>1. masked' \in BOOLEAN
    BY Zenon DEF IInv, Shape, ValuesOK
  <2>2. PICK t \in Threads : exit(t) /\ Alive(t)
    BY DEF IInv, Shape, PlacesOK, Places
  <2>3. atexit' \in BOOLEAN /\ ended' \in BOOLEAN
    BY <2>2 DEF IInv, Shape, ValuesOK
  <2>4. pc' = pc \/ pc' = [pc EXCEPT ![t] = "stop_mainloop"]
    BY <2>2
  <2>5. PlacesOK'
    BY <2>4 DEF IInv, Shape, PlacesOK, Places
  <2>6. UNCHANGED <<owner, cancel, numbers, history>>
    OBVIOUS
  <2>7. OwnersOK' /\ ValuesOK'
    BY <2>1, <2>3, <2>6 DEF IInv, Shape, OwnersOK, ValuesOK
  <2>8. QED
    BY <2>5, <2>7 DEF Shape
<1>2. Stops'
  BY DEF IInv, Shape, PlacesOK, ValuesOK, Places,
         Stops, OneExit, WhileStopping, CleansWhenFailed
<1>3. Opens'
  BY DEF IInv, Shape, PlacesOK, ValuesOK, Places,
         Stops, OneExit, WhileStopping, CleansWhenFailed,
         Opens, OpenLines, Released
<1>4. Closes'
  BY DEF IInv, Shape, PlacesOK, ValuesOK, Places,
         Stops, OneExit, WhileStopping, CleansWhenFailed,
         Opens, OpenLines, Released,
         Closes, ClosedLines, ApiHasStopped, ClosedDevices,
         ClosesOnceUnlessFailed
<1>5. OwnersInside'
  BY DEF IInv, Shape, PlacesOK, OwnersOK, ValuesOK, OwnersInside, Inside, Sections
<1>6. QED
  BY <1>1, <1>2, <1>3, <1>4, <1>5 DEF IInv

\* free_all cancels, and waits for what it has cancelled.
LEMMA StopKeepsInv ==
    ASSUME IInv, Running, NEW t \in Threads,
           \/ mainloop_stop(t) \/ mainloop_join(t)
           \/ api_server_stop(t) \/ api_server_join(t)
    PROVE  IInv'
<1> USE DEF mainloop_stop, mainloop_join, api_server_stop, api_server_join, exited
<1>1. Shape'
  <2>1. CASE mainloop_stop(t) \/ mainloop_join(t)
    BY <2>1 DEF IInv, Shape, PlacesOK, OwnersOK, ValuesOK, Places
  <2>2. CASE api_server_stop(t)
    BY <2>2 DEF IInv, Shape, PlacesOK, OwnersOK, ValuesOK, Places
  <2>3. CASE api_server_join(t)
    BY <2>3 DEF IInv, Shape, PlacesOK, OwnersOK, ValuesOK, Places
  <2>4. QED
    BY <2>1, <2>2, <2>3
<1>2. Stops'
  BY DEF IInv, Shape, PlacesOK, ValuesOK, Places,
         Stops, OneExit, WhileStopping, CleansWhenFailed
<1>3. Opens'
  BY DEF IInv, Shape, PlacesOK, ValuesOK, Places,
         Stops, OneExit, WhileStopping, CleansWhenFailed,
         Opens, OpenLines, Released
<1>4. Closes'
  BY DEF IInv, Shape, PlacesOK, ValuesOK, Places,
         Stops, OneExit, WhileStopping, CleansWhenFailed,
         Opens, OpenLines, Released,
         Closes, ClosedLines, ApiHasStopped, ClosedDevices,
         ClosesOnceUnlessFailed
<1>5. OwnersInside'
  BY DEF IInv, Shape, PlacesOK, OwnersOK, ValuesOK, OwnersInside, Inside, Sections
<1>6. QED
  BY <1>1, <1>2, <1>3, <1>4, <1>5 DEF IInv

\* A cancelled thread ends where it is, and keeps what it has locked.
LEMMA CancelKeepsInv ==
    ASSUME IInv, Running, NEW t \in Tasks, Cancelled(t)
    PROVE  IInv'
<1> USE DEF Cancelled
<1>1. Shape'
  BY DEF IInv, Shape, PlacesOK, OwnersOK, ValuesOK, Places
<1>2. Stops'
  BY DEF IInv, Shape, PlacesOK, ValuesOK, Places,
         Stops, OneExit, WhileStopping, CleansWhenFailed
<1>3. Opens'
  BY DEF IInv, Shape, PlacesOK, ValuesOK, Places,
         Stops, OneExit, WhileStopping, CleansWhenFailed,
         Opens, OpenLines, Released
<1>4. Closes'
  BY DEF IInv, Shape, PlacesOK, ValuesOK, Places,
         Stops, OneExit, WhileStopping, CleansWhenFailed,
         Opens, OpenLines, Released,
         Closes, ClosedLines, ApiHasStopped, ClosedDevices,
         ClosesOnceUnlessFailed
<1>5. OwnersInside'
  BY DEF IInv, Shape, PlacesOK, OwnersOK, ValuesOK, OwnersInside, Inside, Sections
<1>6. QED
  BY <1>1, <1>2, <1>3, <1>4, <1>5 DEF IInv

\* The main loop thread cannot be scheduled, or its devices fail; or they are there.
LEMMA LoopFailsKeepsInv ==
    ASSUME IInv, Running, mainloop_fails \/ HwIsReady
    PROVE  IInv'
<1> USE DEF mainloop_fails, HwIsReady, CleanAndEnd
<1>1. Shape'
  BY DEF IInv, Shape, PlacesOK, OwnersOK, ValuesOK, Places
<1>2. Stops'
  BY DEF IInv, Shape, PlacesOK, ValuesOK, Places,
         Stops, OneExit, WhileStopping, CleansWhenFailed
<1>3. Opens'
  BY DEF IInv, Shape, PlacesOK, ValuesOK, Places,
         Stops, OneExit, WhileStopping, CleansWhenFailed,
         Opens, OpenLines, Released
<1>4. Closes'
  BY DEF IInv, Shape, PlacesOK, ValuesOK, Places,
         Stops, OneExit, WhileStopping, CleansWhenFailed,
         Opens, OpenLines, Released,
         Closes, ClosedLines, ApiHasStopped, ClosedDevices,
         ClosesOnceUnlessFailed
<1>5. OwnersInside'
  BY DEF IInv, Shape, PlacesOK, OwnersOK, ValuesOK, OwnersInside, Inside, Sections
<1>6. QED
  BY <1>1, <1>2, <1>3, <1>4, <1>5 DEF IInv

\* The threads go through the critical sections of the drivers.
LEMMA ExecKeepsInv ==
    ASSUME IInv, Running, 
           \/ mainloop_exec
           \/ ApiWakes
           \/ build_payload
           \/ api_server_ends
    PROVE  IInv'
<1> USE DEF mainloop_exec, ApiWakes, build_payload, api_server_ends, Enter, Leave, Lock, Unlock
<1>1. Shape'
  BY DEF IInv, Shape, PlacesOK, OwnersOK, ValuesOK, Places
<1>2. Stops'
  BY DEF IInv, Shape, PlacesOK, ValuesOK, Places,
         Stops, OneExit, WhileStopping, CleansWhenFailed
<1>3. Opens'
  BY DEF IInv, Shape, PlacesOK, ValuesOK, Places,
         Stops, OneExit, WhileStopping, CleansWhenFailed,
         Opens, OpenLines, Released
<1>4. Closes'
  BY DEF IInv, Shape, PlacesOK, ValuesOK, Places,
         Stops, OneExit, WhileStopping, CleansWhenFailed,
         Opens, OpenLines, Released,
         Closes, ClosedLines, ApiHasStopped, ClosedDevices,
         ClosesOnceUnlessFailed
<1>5. OwnersInside'
  BY DEF IInv, Shape, PlacesOK, OwnersOK, ValuesOK, OwnersInside, Inside, Sections
<1>6. QED
  BY <1>1, <1>2, <1>3, <1>4, <1>5 DEF IInv

\* Whoever cleans waits for the lock.
LEMMA CleanLockKeepsInv ==
    ASSUME IInv, Running, NEW t \in Threads, gpio_clean_lock(t)
    PROVE  IInv'
<1> USE DEF gpio_clean_lock, Lock
<1>1. Shape'
  BY DEF IInv, Shape, PlacesOK, OwnersOK, ValuesOK, Places
<1>2. Stops'
  BY DEF IInv, Shape, PlacesOK, ValuesOK, Places,
         Stops, OneExit, WhileStopping, CleansWhenFailed
<1>3. Opens'
  BY DEF IInv, Shape, PlacesOK, ValuesOK, Places,
         Stops, OneExit, WhileStopping, CleansWhenFailed,
         Opens, OpenLines, Released
<1>4. Closes'
  BY DEF IInv, Shape, PlacesOK, ValuesOK, Places,
         Stops, OneExit, WhileStopping, CleansWhenFailed,
         Opens, OpenLines, Released,
         Closes, ClosedLines, ApiHasStopped, ClosedDevices,
         ClosesOnceUnlessFailed
<1>5. OwnersInside'
  BY DEF IInv, Shape, PlacesOK, OwnersOK, ValuesOK, OwnersInside, Inside, Sections
<1>6. QED
  BY <1>1, <1>2, <1>3, <1>4, <1>5 DEF IInv

\* gpio_clean closes the lines that are open, whoever calls it.
LEMMA CleanKeepsInv ==
    ASSUME IInv, Running, NEW t \in Threads, gpio_clean(t)
    PROVE  IInv'
<1> USE DEF gpio_clean, Closed, Recloses, Unlock
<1>1. reclosed' \in BOOLEAN
  BY Zenon DEF gpio_clean, Recloses
<1>2. Shape'
  BY <1>1 DEF IInv, Shape, PlacesOK, OwnersOK, ValuesOK, Places
<1>3. Stops'
  BY <1>1 DEF IInv, Shape, PlacesOK, ValuesOK, Places,
         Stops, OneExit, WhileStopping, CleansWhenFailed
<1>4. Opens'
  BY <1>1 DEF IInv, Shape, PlacesOK, ValuesOK, Places,
         Stops, OneExit, WhileStopping, CleansWhenFailed,
         Opens, OpenLines, Released
<1>5. Closes'
  BY <1>1 DEF IInv, Shape, PlacesOK, ValuesOK, Places,
         Stops, OneExit, WhileStopping, CleansWhenFailed,
         Opens, OpenLines, Released,
         Closes, ClosedLines, ApiHasStopped, ClosedDevices,
         ClosesOnceUnlessFailed
<1>6. OwnersInside'
  BY <1>1 DEF IInv, Shape, PlacesOK, OwnersOK, ValuesOK, OwnersInside, Inside, Sections
<1>7. QED
  BY <1>2, <1>3, <1>4, <1>5, <1>6 DEF IInv

\* adc_mcp3008_clean closes the devices, and the cleaner is done.
LEMMA CleanAdcKeepsInv ==
    ASSUME IInv, Running, NEW t \in Threads, adc_mcp3008_clean(t)
    PROVE  IInv'
<1> USE DEF adc_mcp3008_clean, Closed, Recloses, Destroyed, AfterClean
<1>1. reclosed' \in BOOLEAN
  BY Zenon DEF adc_mcp3008_clean, Recloses
<1>2. Shape'
  BY <1>1 DEF IInv, Shape, PlacesOK, OwnersOK, ValuesOK, Places
<1>3. Stops'
  BY <1>1 DEF IInv, Shape, PlacesOK, ValuesOK, Places,
         Stops, OneExit, WhileStopping, CleansWhenFailed
<1>4. Opens'
  BY <1>1 DEF IInv, Shape, PlacesOK, ValuesOK, Places,
         Stops, OneExit, WhileStopping, CleansWhenFailed,
         Opens, OpenLines, Released
<1>5. Closes'
  BY <1>1 DEF IInv, Shape, PlacesOK, ValuesOK, Places,
         Stops, OneExit, WhileStopping, CleansWhenFailed,
         Opens, OpenLines, Released,
         Closes, ClosedLines, ApiHasStopped, ClosedDevices,
         ClosesOnceUnlessFailed
<1>6. OwnersInside'
  BY <1>1 DEF IInv, Shape, PlacesOK, OwnersOK, ValuesOK, OwnersInside, Inside, Sections
<1>7. QED
  BY <1>2, <1>3, <1>4, <1>5, <1>6 DEF IInv

\* A driver initialises its mutex, whoever is inside.
LEMMA InitMutexKeepsInv ==
    ASSUME IInv, Running, gpio_init \/ adc_mcp3008_init
    PROVE  IInv'
<1> USE DEF gpio_init, adc_mcp3008_init, InitMutex
<1>1. trampled' \in BOOLEAN
  BY Zenon DEF gpio_init, adc_mcp3008_init, InitMutex
<1>2. Shape'
  BY <1>1 DEF IInv, Shape, PlacesOK, OwnersOK, ValuesOK, Places
<1>3. Stops'
  BY <1>1 DEF IInv, Shape, PlacesOK, ValuesOK, Places,
         Stops, OneExit, WhileStopping, CleansWhenFailed
<1>4. Opens'
  BY <1>1 DEF IInv, Shape, PlacesOK, ValuesOK, Places,
         Stops, OneExit, WhileStopping, CleansWhenFailed,
         Opens, OpenLines, Released
<1>5. Closes'
  BY <1>1 DEF IInv, Shape, PlacesOK, ValuesOK, Places,
         Stops, OneExit, WhileStopping, CleansWhenFailed,
         Opens, OpenLines, Released,
         Closes, ClosedLines, ApiHasStopped, ClosedDevices,
         ClosesOnceUnlessFailed
<1>6. OwnersInside'
  BY <1>1 DEF IInv, Shape, PlacesOK, OwnersOK, ValuesOK, OwnersInside, Inside, Sections
<1>7. QED
  BY <1>2, <1>3, <1>4, <1>5, <1>6 DEF IInv

\* gpio_init opens the lines, late or not.
LEMMA InitLinesKeepsInv ==
    ASSUME IInv, Running, gpio_init_lock \/ gpio_init_request
    PROVE  IInv'
<1> USE DEF gpio_init_lock, gpio_init_request, Lock, Unlock
<1>1. late' \in BOOLEAN
  BY Zenon DEF IInv, Shape, ValuesOK, gpio_init_lock, gpio_init_request
<1>2. Shape'
  BY <1>1 DEF IInv, Shape, PlacesOK, OwnersOK, ValuesOK, Places
<1>3. Stops'
  BY <1>1 DEF IInv, Shape, PlacesOK, ValuesOK, Places,
         Stops, OneExit, WhileStopping, CleansWhenFailed
<1>4. Opens'
  BY <1>1 DEF IInv, Shape, PlacesOK, ValuesOK, Places,
         Stops, OneExit, WhileStopping, CleansWhenFailed,
         Opens, OpenLines, Released
<1>5. Closes'
  BY <1>1 DEF IInv, Shape, PlacesOK, ValuesOK, Places,
         Stops, OneExit, WhileStopping, CleansWhenFailed,
         Opens, OpenLines, Released,
         Closes, ClosedLines, ApiHasStopped, ClosedDevices,
         ClosesOnceUnlessFailed
<1>6. OwnersInside'
  BY <1>1 DEF IInv, Shape, PlacesOK, OwnersOK, ValuesOK, OwnersInside, Inside, Sections
<1>7. QED
  BY <1>2, <1>3, <1>4, <1>5, <1>6 DEF IInv

\* The main loop thread calls exit in gpio_init, with no line requested.
LEMMA InitExitsKeepsInv ==
    ASSUME IInv, Running, gpio_init_exits
    PROVE  IInv'
<1> USE DEF gpio_init_exits, exit, InitMutex
<1>1. /\ trampled' \in BOOLEAN
      /\ trampled \/ Inside("gpio") # {} => trampled'
  BY Zenon
<1>2. Shape'
  BY <1>1 DEF IInv, Shape, PlacesOK, OwnersOK, ValuesOK, Places
<1>3. Stops'
  BY <1>1 DEF IInv, Shape, PlacesOK, ValuesOK, Places,
         Stops, OneExit, WhileStopping, CleansWhenFailed
<1>4. Opens'
  BY <1>1 DEF IInv, Shape, PlacesOK, ValuesOK, Places,
         Stops, OneExit, WhileStopping, CleansWhenFailed,
         Opens, OpenLines, Released
<1>5. Closes'
  BY <1>1 DEF IInv, Shape, PlacesOK, ValuesOK, Places,
         Stops, OneExit, WhileStopping, CleansWhenFailed,
         Opens, OpenLines, Released,
         Closes, ClosedLines, ApiHasStopped, ClosedDevices,
         ClosesOnceUnlessFailed
<1>6. OwnersInside'
  <2> SUFFICES ASSUME ~trampled', NEW m \in Mutexes, owner'[m] # "destroyed",
                      NEW t \in Inside(m)'
               PROVE  owner'[m] = t
    BY DEF OwnersInside
  <2>1. ~trampled /\ Inside("gpio") = {}
    BY <1>1
  <2>2. t \in Inside(m)
    BY DEF Inside, Sections, IInv, Shape, PlacesOK
  <2>3. m = "adc" /\ owner'[m] = owner[m]
    BY <2>1, <2>2 DEF IInv, Shape, OwnersOK
  <2>4. QED
    BY <2>1, <2>2, <2>3 DEF IInv, OwnersInside
<1>7. QED
  BY <1>2, <1>3, <1>4, <1>5, <1>6 DEF IInv

\* The program starts with nothing locked, opened or cancelled.
LEMMA IInvInit == Init => IInv
BY DEF Init, IInv, Shape, PlacesOK, OwnersOK, ValuesOK, Places,
       Stops, OneExit, WhileStopping, CleansWhenFailed,
       Opens, OpenLines, Released, Closes, ClosedLines, ApiHasStopped, ClosedDevices,
         ClosesOnceUnlessFailed,
       OwnersInside, Inside, Sections

\* A stutter changes nothing.
LEMMA StutterKeepsInv == IInv /\ UNCHANGED vars => IInv'
BY DEF vars, IInv, Shape, PlacesOK, OwnersOK, ValuesOK, Places,
       Stops, OneExit, WhileStopping, CleansWhenFailed,
       Opens, OpenLines, Released, Closes, ClosedLines, ApiHasStopped, ClosedDevices,
         ClosesOnceUnlessFailed,
       OwnersInside, Inside, Sections

\* free_all keeps the invariant, whoever runs it, and the clean of a main loop that failed.
LEMMA FreeAllKeepsInv == ASSUME IInv, Running, NEW t \in Threads, free_all(t) PROVE IInv'
BY StopKeepsInv, CleanLockKeepsInv, CleanKeepsInv, CleanAdcKeepsInv DEF free_all, mainloop_clean

\* Every step keeps the invariant.
LEMMA IInvStep == IInv /\ [Next]_vars => IInv'
<1> SUFFICES ASSUME IInv, [Next]_vars PROVE IInv'
  OBVIOUS
<1>1. CASE UNCHANGED vars
  BY <1>1, StutterKeepsInv
<1>2. CASE Running /\ (main \/ tasks_start_fails \/ SIGTERM \/ SIGSEGV)
  BY <1>2, StartKeepsInv, ExitKeepsInv, FreeAllKeepsInv DEF main
<1>3. CASE Running /\ (mainloop_thread \/ HwIsReady)
  BY <1>3, LoopFailsKeepsInv, InitMutexKeepsInv, InitLinesKeepsInv, InitExitsKeepsInv,
     ExecKeepsInv, FreeAllKeepsInv DEF mainloop_thread
<1>4. CASE Running /\ (ApiWakes \/ api_thread \/ api_server_ends)
  BY <1>4, ExecKeepsInv, FreeAllKeepsInv DEF api_thread
<1>5. CASE \E t \in Tasks : Cancelled(t)
  <2>1. Running
    BY <1>5 DEF Cancelled
  <2>2. QED
    BY <1>5, <2>1, CancelKeepsInv
<1>6. QED
  BY <1>1, <1>2, <1>3, <1>4, <1>5 DEF Next

\* The invariant holds in every state.
THEOREM Invariant == Spec => []IInv
BY IInvInit, IInvStep, PTL DEF Spec

\* Whatever fails and whoever is cancelled, the threads, mutexes and tables have
\* the states the code gives them.
THEOREM TypeCorrect == Spec => []TypeOK
<1>1. IInv => TypeOK
  BY DEF IInv, Shape, PlacesOK, OwnersOK, ValuesOK, TypeOK
<1>2. QED
  BY <1>1, Invariant, PTL

\* A mutex protects its critical sections in every interleaving, unless a driver
\* was initialised with a thread inside or the mutex was destroyed.
THEOREM MutexesExclude == Spec => []ExclusiveUnlessReset
<1>1. IInv => ExclusiveUnlessReset
  BY DEF IInv, OwnersInside, ExclusiveUnlessReset
<1>2. QED
  BY <1>1, Invariant, PTL

\* In whatever order the threads start, fail, take signals, exit and are cancelled, the
\* process ends with the outputs released, unless they were requested after the clean or
\* exit was called again before free_all was through.
THEOREM ExitIsSafe == Spec => []SafeExit
<1>1. IInv => SafeExit
  BY DEF IInv, Stops, OneExit, Opens, Released, SafeExit
<1>2. QED
  BY <1>1, Invariant, PTL

\* A main loop thread that ended while the process goes on has released the outputs, or
\* the API thread, which is at it, does, unless they were requested after its clean.
THEOREM DeadLoopHasReleased == Spec => []DeadLoopReleases
<1>1. IInv => DeadLoopReleases
  BY DEF IInv, Stops, OneExit, Opens, OpenLines, Released, DeadLoopReleases
<1>2. QED
  BY <1>1, Invariant, PTL

\* Nobody works on closed numbers but the threads that are being stopped, and
\* the API thread when the main loop could not start.
THEOREM ClosedStaysUnused == Spec => []ClosedIsNotUsed
<1>1. IInv => ClosedIsNotUsed
  BY DEF IInv, Shape, PlacesOK, Places, Stops, OneExit, WhileStopping, Closes, ClosedLines,
         ClosedDevices, ApiHasStopped, ClosedIsNotUsed
<1>2. QED
  BY <1>1, Invariant, PTL

\* A number is closed twice only after the main loop could not start.
THEOREM OneCloseUnlessFailed == Spec => []ClosesOnceUnlessFailed
<1>1. IInv => ClosesOnceUnlessFailed
  BY DEF IInv, Closes
<1>2. QED
  BY <1>1, Invariant, PTL
=============================================================================
