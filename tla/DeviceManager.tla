---------------------------- MODULE DeviceManager ----------------------------
(***************************************************************************)
(* The device manager of the FreeRTOS port (device_manager.cc): its table  *)
(* of devices, in which sockets come and go, the I2C driver of the         *)
(* STM32F746G board (i2c_driver.cc: requests, an interrupt driven state    *)
(* machine and a task) and the button (button_driver.cc), with the clients *)
(* that wait for their events.                                             *)
(***************************************************************************)
EXTENDS DeviceFlags, SequencesExt, FiniteSetsExt

CONSTANTS
  NULL,
  MaxSlots,       \* bound: slots of the table
  MaxCount,       \* bound: bytes of a request
  MaxRequests,    \* bound: I2C requests
  MaxPresses      \* bound: presses of the button

VARIABLES
  devices,     \* devices_: what is in each slot, or NULL
  nextFree,    \* next_free_slot_, 0 for kIllegalDeviceId
  flags,       \* the Device of the I2C bus and of the button
  queue,       \* mail_queue_
  i2c,         \* I2CDriverImpl
  bus,         \* the I2C controller
  signals,     \* signals of the I2C task's thread
  task,        \* what the I2C task has been signalled
  semaphore,   \* semaphore_ of the button
  button,      \* the button task, and presses since it was last read
  i2cClient, buttonClient,
  failed       \* NULL pointers used, assertions that failed

devVars == <<devices, nextFree, flags, queue, i2c, bus, signals, task,
             semaphore, button, i2cClient, buttonClient, failed>>

i2cVars == <<i2c, bus, signals, task, i2cClient>>
buttonVars == <<semaphore, button, buttonClient>>
tableVars == <<devices, nextFree>>

kResultReadyBit == "result ready"
kErrorBit == "error"
kButtonPressBit == "pressed"

Entry(name, id) == [name |-> name, id |-> id, initialized |-> FALSE]

\* The drivers are registered, and DartinoEntry has opened the UART and the
\* button.  osSemaphoreCreate gives the semaphore its three tokens.
DevInit ==
  /\ devices = <<[Entry("uart1", 1) EXCEPT !.initialized = TRUE],
                 [Entry("button1", 2) EXCEPT !.initialized = TRUE],
                 Entry("i2c1", 3)>>
  /\ nextFree = 0
  /\ flags = [d \in {"i2c1", "button1"} |-> NewDevice]
  /\ queue = <<>>
  /\ i2c = [state |-> "IDLE", error |-> "NO_ERROR", count |-> 0]
  /\ bus = [on |-> FALSE, next |-> "none", fault |-> "none"]
  /\ signals = {} /\ task = {}
  /\ semaphore = 3
  /\ button = [running |-> FALSE, pressed |-> FALSE, presses |-> 0]
  /\ i2cClient = [pc |-> "closed", rc |-> "none", requests |-> 0]
  /\ buttonClient = "idle"
  /\ failed = {}

---------------------------------------------------------------------------
(* The table. *)

FreeSlots(slots) == {i \in DOMAIN slots : slots[i] = NULL}

\* FindFreeDeviceSlot and RegisterDevice.
CreateSocket ==
  /\ nextFree # 0 \/ Len(devices) < MaxSlots
  /\ IF nextFree # 0
     THEN LET after == {i \in FreeSlots(devices) : i > nextFree}
          IN /\ nextFree' = IF after = {} THEN 0 ELSE Min(after)
             /\ devices' = [devices EXCEPT ![nextFree] = Entry("socket", nextFree)]
             /\ failed' = IF devices[nextFree] = NULL THEN failed
                          ELSE failed \cup {"FindFreeDeviceSlot"}
     ELSE /\ devices' = Append(devices, Entry("socket", Len(devices) + 1))
          /\ UNCHANGED <<nextFree, failed>>
  /\ UNCHANGED <<flags, queue, i2cVars, buttonVars>>

\* A slip: the slot freed last, not the smallest.
RegisterFreeDeviceSlotLast(handle) == nextFree' = handle

RegisterFreeDeviceSlot(handle) ==
  nextFree' = IF nextFree = 0 \/ handle < nextFree THEN handle ELSE nextFree

\* RemoveSocket and RemoveDevice, of a socket a program has.
RemoveSocket(handle) ==
  /\ devices[handle] # NULL /\ devices[handle].name = "socket"
  /\ devices' = [devices EXCEPT ![handle] = NULL]
  /\ RegisterFreeDeviceSlot(handle)
  /\ UNCHANGED <<flags, queue, i2cVars, buttonVars, failed>>

\* LookupDevice: <<slot or 0, whether an empty slot was looked into>>.
LookupDevice(name) ==
  LET is == {i \in DOMAIN devices : devices[i] # NULL /\ devices[i].name = name}
      upTo == IF is = {} THEN Len(devices) ELSE Min(is)
  IN <<IF is = {} THEN 0 ELSE Min(is),
       \E i \in FreeSlots(devices) : i <= upTo>>

OpenI2C(name) ==
  /\ i2cClient.pc \in {"closed", "idle"}
  /\ LET found == LookupDevice(name)
     IN IF found[2]
        THEN failed' = failed \cup {"LookupDevice"} /\ UNCHANGED <<devices, i2cClient>>
        ELSE /\ found[1] # 0 /\ ~devices[found[1]].initialized
             /\ devices' = [devices EXCEPT ![found[1]].initialized = TRUE]
             /\ i2cClient' = [i2cClient EXCEPT !.pc = "idle"]
             /\ UNCHANGED failed
  /\ UNCHANGED <<nextFree, flags, queue, i2c, bus, signals, task, buttonVars>>

---------------------------------------------------------------------------
(* I2C requests. *)

Applies(device, result) ==
  /\ flags' = [flags EXCEPT ![device] = result[1]]
  /\ queue' = queue \o result[2]

\* RequestReadRegisters and RequestWriteRegisters: the register is sent first.
Request(state, count) ==
  /\ i2cClient.pc = "idle" /\ i2cClient.requests < MaxRequests
  /\ IF i2c.state # "IDLE"
     THEN /\ i2cClient' = [i2cClient EXCEPT !.requests = @ + 1,
                                            !.rc = "INVALID_ARGUMENTS"]
          /\ UNCHANGED <<i2c, bus>>
     ELSE /\ i2cClient' = [i2cClient EXCEPT !.requests = @ + 1, !.pc = "listen",
                                            !.rc = "none"]
          /\ i2c' = [state |-> state, error |-> "NO_ERROR", count |-> count]
          /\ bus' = [on |-> TRUE, next |-> "TXIS", fault |-> "none"]
  /\ UNCHANGED <<tableVars, flags, queue, signals, task, buttonVars, failed>>

ListenI2C ==
  /\ i2cClient.pc = "listen"
  /\ Applies("i2c1", SetEventListener(flags["i2c1"], {kResultReadyBit, kErrorBit},
                                      "i2c"))
  /\ i2cClient' = [i2cClient EXCEPT !.pc = "wait"]
  /\ UNCHANGED <<tableVars, i2c, bus, signals, task, buttonVars, failed>>

AcknowledgeResult ==
  /\ i2cClient.pc = "received"
  /\ IF i2c.state = "DONE"
     THEN /\ i2c' = [i2c EXCEPT !.state = "IDLE"]
          /\ flags' = [flags EXCEPT !["i2c1"] =
                         ClearFlags(@, {kResultReadyBit, kErrorBit})]
          /\ i2cClient' = [i2cClient EXCEPT !.pc = "idle", !.rc = i2c.error]
     ELSE /\ i2cClient' = [i2cClient EXCEPT !.pc = "idle",
                             !.rc = IF i2c.state = "IDLE" THEN "NO_PENDING_REQUEST"
                                    ELSE "RESULT_NOT_READY"]
          /\ UNCHANGED <<i2c, flags>>
  /\ UNCHANGED <<tableVars, queue, bus, signals, task, buttonVars, failed>>

---------------------------------------------------------------------------
(* The I2C interrupt handlers.  The controller raises NACKF instead of an   *)
(* answer, and STOPF once the bytes of the transfer are through.            *)

SignalError(code, state) ==
  /\ i2c' = [i2c EXCEPT !.error = code, !.state = state]
  /\ bus' = [bus EXCEPT !.on = FALSE, !.next = "none"]
  /\ signals' = signals \cup {kErrorBit}

SignalSuccess(state) ==
  /\ i2c' = [i2c EXCEPT !.state = state]
  /\ bus' = [bus EXCEPT !.on = FALSE, !.next = "none"]
  /\ signals' = signals \cup {kResultReadyBit}

Continues(state, next) ==
  /\ i2c' = [i2c EXCEPT !.state = state]
  /\ bus' = [bus EXCEPT !.next = next]
  /\ UNCHANGED signals

MovesByte(next) ==
  /\ i2c' = [i2c EXCEPT !.count = @ - 1]
  /\ bus' = [bus EXCEPT !.next = IF i2c.count = 1 THEN "STOPF" ELSE next]
  /\ UNCHANGED signals

InternalStateError == SignalError("INTERNAL_ERROR", i2c.state)

TXIS ==
  CASE i2c.state = "SEND_REGISTER_READ" -> Continues("PREPARE_READ_REGISTER", "TC")
    [] i2c.state = "SEND_REGISTER_WRITE" -> Continues("PREPARE_WRITE_REGISTER", "TCR")
    [] i2c.state = "WRITE_DATA" -> MovesByte("TXIS")
    [] OTHER -> InternalStateError

RXNE == IF i2c.state = "READ_DATA" THEN MovesByte("RXNE") ELSE InternalStateError

TC ==
  CASE i2c.state = "PREPARE_READ_REGISTER" -> Continues("READ_DATA", "RXNE")
    [] i2c.state \in {"WRITE_DATA", "READ_DATA"} ->
         IF i2c.count = 0 THEN SignalSuccess(i2c.state)
         ELSE SignalError("SHORT_READ_WRITE", i2c.state)
    [] OTHER -> InternalStateError

TCR == IF i2c.state = "PREPARE_WRITE_REGISTER" THEN Continues("WRITE_DATA", "TXIS")
       ELSE InternalStateError

STOPF == IF i2c.error # "NO_ERROR" THEN SignalError(i2c.error, "DONE")
         ELSE SignalSuccess("DONE")

InterruptHandler ==
  /\ bus.on
  /\ \/ bus.next = "TXIS" /\ TXIS
     \/ bus.next = "RXNE" /\ RXNE
     \/ bus.next = "TC" /\ TC
     \/ bus.next = "TCR" /\ TCR
     \/ bus.next = "STOPF" /\ STOPF
  /\ UNCHANGED <<tableVars, flags, queue, task, i2cClient, buttonVars, failed>>

\* The device addressed does not acknowledge: the controller stops by itself.
NACKF ==
  /\ bus.on /\ bus.next = "TXIS"
  /\ i2c' = [i2c EXCEPT !.error = "RECEIVED_NACK"]
  /\ bus' = [bus EXCEPT !.next = "STOPF", !.fault = "RECEIVED_NACK"]
  /\ UNCHANGED <<tableVars, flags, queue, signals, task, i2cClient, buttonVars,
                 failed>>

ErrorInterruptHandler(code) ==
  /\ bus.on
  /\ i2c' = [i2c EXCEPT !.error = code]
  /\ bus' = [on |-> FALSE, next |-> "none", fault |-> "bus"]
  /\ signals' = signals \cup {kErrorBit}
  /\ UNCHANGED <<tableVars, flags, queue, task, i2cClient, buttonVars, failed>>

TaskWakes ==
  /\ task = {} /\ signals # {}
  /\ task' = signals /\ signals' = {}
  /\ UNCHANGED <<tableVars, flags, queue, i2c, bus, i2cClient, buttonVars, failed>>

TaskSetsFlags ==
  /\ task # {}
  /\ Applies("i2c1", SetFlags(flags["i2c1"], task))
  /\ task' = {}
  /\ UNCHANGED <<tableVars, i2c, bus, signals, i2cClient, buttonVars, failed>>

---------------------------------------------------------------------------
(* The button. *)

\* The interrupt releases the semaphore, which holds three tokens at most.
ReturnFromInterrupt ==
  /\ button.presses < MaxPresses
  /\ button' = [button EXCEPT !.presses = @ + 1, !.pressed = TRUE]
  /\ semaphore' = IF semaphore < 3 THEN semaphore + 1 ELSE semaphore
  /\ UNCHANGED <<tableVars, flags, queue, i2cVars, buttonClient, failed>>

ButtonTaskWakes ==
  /\ ~button.running /\ semaphore > 0
  /\ semaphore' = semaphore - 1
  /\ button' = [button EXCEPT !.running = TRUE]
  /\ UNCHANGED <<tableVars, flags, queue, i2cVars, buttonClient, failed>>

ButtonTaskSetsFlags ==
  /\ button.running
  /\ Applies("button1", SetFlags(flags["button1"], {kButtonPressBit}))
  /\ button' = [button EXCEPT !.running = FALSE]
  /\ UNCHANGED <<tableVars, i2cVars, semaphore, buttonClient, failed>>

ListenButton ==
  /\ buttonClient = "idle"
  /\ Applies("button1", SetEventListener(flags["button1"], {kButtonPressBit},
                                         "button"))
  /\ buttonClient' = "wait"
  /\ UNCHANGED <<tableVars, i2cVars, semaphore, button, failed>>

NotifyRead ==
  /\ buttonClient = "received"
  /\ flags' = [flags EXCEPT !["button1"] = ClearFlags(@, {kButtonPressBit})]
  /\ button' = [button EXCEPT !.pressed = FALSE]
  /\ buttonClient' = "idle"
  /\ UNCHANGED <<tableVars, queue, i2cVars, semaphore, failed>>

---------------------------------------------------------------------------
(* The event handler thread sends the event to its listener. *)

RunEventHandler ==
  /\ queue # <<>>
  /\ queue' = Tail(queue)
  /\ IF Head(queue).listener = "i2c"
     THEN i2cClient' = [i2cClient EXCEPT !.pc = "received"] /\ UNCHANGED buttonClient
     ELSE buttonClient' = "received" /\ UNCHANGED i2cClient
  /\ UNCHANGED <<tableVars, flags, i2c, bus, signals, task, semaphore, button, failed>>

DevNext ==
  /\ failed = {}
  /\ \/ CreateSocket
     \/ \E handle \in DOMAIN devices : RemoveSocket(handle)
     \/ \E name \in {"i2c1", "absent"} : OpenI2C(name)
     \/ \E state \in {"SEND_REGISTER_READ", "SEND_REGISTER_WRITE"},
           count \in 1..MaxCount : Request(state, count)
     \/ ListenI2C \/ AcknowledgeResult
     \/ InterruptHandler \/ NACKF
     \/ \E code \in {"BUS_ERROR", "OVERRUN_ERROR", "ARBITRATION_LOSS"} :
          ErrorInterruptHandler(code)
     \/ TaskWakes \/ TaskSetsFlags
     \/ ReturnFromInterrupt \/ ButtonTaskWakes \/ ButtonTaskSetsFlags
     \/ ListenButton \/ NotifyRead
     \/ RunEventHandler

---------------------------------------------------------------------------
(* Properties. *)

\* next_free_slot_ is "The smallest index of a free slot in devices_ or
\* kIllegalDeviceId if there is no such slot"; each device is where it says.
SlotsRight ==
  /\ nextFree = IF FreeSlots(devices) = {} THEN 0 ELSE Min(FreeSlots(devices))
  /\ \A i \in DOMAIN devices : devices[i] # NULL => devices[i].id = i

\* The state machine moves every byte of a request before it succeeds, tells a
\* transfer that was not acknowledged from one that was, and its client is not
\* left waiting.
I2CAnswers ==
  /\ i2cClient.pc = "idle" /\ i2cClient.rc = "NO_ERROR" =>
       i2c.count = 0 /\ bus.fault = "none"
  /\ i2cClient.pc = "idle" /\ i2cClient.rc = "RECEIVED_NACK" =>
       bus.fault = "RECEIVED_NACK"
  /\ i2cClient.rc \in {"RESULT_NOT_READY", "INVALID_ARGUMENTS"} => bus.fault = "bus"
  /\ i2c.error # "INTERNAL_ERROR" /\ i2cClient.rc # "NO_PENDING_REQUEST"
  /\ i2cClient.pc = "wait" /\ ~bus.on => signals # {} \/ task # {} \/ queue # <<>>

\* A press after the last NotifyRead wakes the client that waits for one.
ButtonHeard ==
  buttonClient = "wait" /\ button.pressed =>
    semaphore > 0 \/ button.running \/ queue # <<>>

\* The devices of the board serve their clients, and an event of each fits in
\* the queue.
DevicesServed ==
  /\ SlotsRight /\ I2CAnswers /\ ButtonHeard
  /\ Len(queue) <= kMailQSize
  /\ failed \subseteq {"LookupDevice"}

\* AcknowledgeResult lets a program "Read the result of a finished request".
ResultIsRead == i2cClient.rc # "RESULT_NOT_READY"

\* OpenI2C answers -1 for a name that no device has.
LookupIsSafe == "LookupDevice" \notin failed
=============================================================================
