---------------------------- MODULE ChaosLoader -----------------------------
(***************************************************************************)
(* ChaosLoader (03_HiveMind_Orchestrator/ChaosLoader/src/main.c and        *)
(* kernel_ioctls.c) and the device it drives: the boot sequence of IOCTLs, *)
(* the launch, and the watcher that waits for the guest's exits and for    *)
(* the machine's shutdown.                                                 *)
(*                                                                         *)
(* pc names the next step of main.  Each IOCTL may fail before the driver  *)
(* has done anything (an event that cannot be created, a request the       *)
(* framework refuses, a buffer it cannot retrieve).  The loader may be     *)
(* killed between two steps, and a fault in the kernel restarts everything.*)
(* Bound: one loader at a time.                                            *)
(*                                                                         *)
(* The addresses of contexts and buffers are used again once freed, as an  *)
(* allocator does.                                                         *)
(***************************************************************************)
EXTENDS BridgeDevice

VARIABLES
  pc,      \* the step of main
  handle,  \* hDevice is open
  ram,     \* guestRam
  frames,  \* the frame of each of its pages; NoFrame while not resident
  file     \* a payload buffer is allocated

loaderVars == <<pc, handle, ram, frames, file>>
vars == <<deviceVars, loaderVars>>

LoaderPC == {"off", "open", "alloc", "register", "kernelFile", "kernel",
             "initrdFile", "initrd", "bootParams", "shm", "launch", "inLaunch",
             "watch", "waiting", "ack", "acking", "cleanup"}

TypeOK ==
  /\ DeviceTypeOK
  /\ pc \in LoaderPC /\ handle \in BOOLEAN /\ file \in BOOLEAN
  /\ ram \in Rams \cup {None} /\ frames \in [1..Pages -> 0..LastFrame]

LoaderInit ==
  /\ pc = "off" /\ handle = FALSE /\ ram = None /\ frames = Unmapped
  /\ file = FALSE

Init == DeviceInit /\ LoaderInit

-----------------------------------------------------------------------------
(* Steps 1 to 3 of main: configuration, device, memory.                    *)

\* A configuration that cannot be read ends the program with nothing held;
\* its text is freed on every path.
ParseConfig ==
  /\ pc = "off" /\ pc' = "open"
  /\ UNCHANGED <<deviceVars, handle, ram, frames, file>>

\* The interface exists once the device has started.
OpenSymbioseDevice ==
  /\ pc = "open"
  /\ \/ pnp \notin {"none", "added"} /\ handle' = TRUE /\ pc' = "alloc"
     \/ pc' = "off" /\ UNCHANGED handle
  /\ UNCHANGED <<deviceVars, ram, frames, file>>

\* Physical memory is handed out page by page, from wherever there is some.
Scattered ==
  {f \in [1..Pages -> 1..LastFrame] :
     \A p, q \in 1..Pages : p # q => f[p] # f[q]}

\* Slip: the handle is not closed when there is no memory.
AllocateGuestRamKeepsHandle ==
  /\ pc = "alloc"
  /\ \/ /\ ram' \in Rams /\ frames' \in Scattered \cup {Unmapped}
        /\ pc' = "register"
     \/ pc' = "off" /\ UNCHANGED <<ram, frames>>
  /\ UNCHANGED <<deviceVars, handle, file>>

\* The default path zeroes the buffer, which makes its pages resident; the
\* NUMA path does not.
AllocateGuestRam ==
  /\ pc = "alloc"
  /\ \/ /\ ram' \in Rams /\ frames' \in Scattered \cup {Unmapped}
        /\ pc' = "register" /\ UNCHANGED handle
     \/ pc' = "off" /\ handle' = FALSE /\ UNCHANGED <<ram, frames>>
  /\ UNCHANGED <<deviceVars, file>>

-----------------------------------------------------------------------------
(* Steps 4 to 9: the boot IOCTLs.                                          *)

AfterStep == [register |-> "kernelFile", kernel |-> "initrdFile",
              initrd |-> "bootParams", bootParams |-> "shm", shm |-> "launch"]

\* A synchronous IOCTL: the driver does its part, or nothing has happened.
SyncIoctl(step, driverPart) ==
  /\ pc = step
  /\ \/ Dispatched /\ driverPart /\ pc' = AfterStep[step]
     \/ UNCHANGED deviceVars /\ pc' = "cleanup"
  /\ UNCHANGED <<handle, ram, frames>>

\* Slip: the result of REGISTER_RAM is not looked at.
RegisterRamUnchecked ==
  /\ pc = "register" /\ pc' = "kernelFile"
  /\ \/ Dispatched /\ SymbioseRegisterGuestRam(ram, frames[1])
     \/ UNCHANGED deviceVars
  /\ UNCHANGED <<handle, ram, frames, file>>

SymbioseRegisterRam ==
  /\ SyncIoctl("register", SymbioseRegisterGuestRam(ram, frames[1]))
  /\ UNCHANGED file

\* kernelData or initrdData is freed whether the IOCTL succeeds or not.
SymbioseLoadPayload(step) ==
  /\ SyncIoctl(step, StubIoctl)
  /\ file' = FALSE

\* A file that cannot be read whole leaves no buffer.
ReadFileToBuffer(step, next) ==
  /\ pc = step
  /\ \/ pc' = next /\ file' = TRUE
     \/ pc' = "cleanup" /\ UNCHANGED file
  /\ UNCHANGED <<deviceVars, handle, ram, frames>>

SymbioseSetBootParams == SyncIoctl("bootParams", StubIoctl) /\ UNCHANGED file
SymbioseEptMapShm     == SyncIoctl("shm", StubIoctl) /\ UNCHANGED file

\* VMLAUNCH is a synchronous IOCTL as well: its dispatch runs the guest.
SymbioseVmLaunch ==
  /\ pc = "launch"
  /\ \/ Dispatched /\ HandleVmLaunch /\ pc' = "inLaunch"
     \/ UNCHANGED deviceVars /\ pc' = "cleanup"
  /\ UNCHANGED <<handle, ram, frames, file>>

VmLaunchReturns ==
  /\ pc = "inLaunch" /\ launch \in {"succeeded", "failed"}
  /\ pc' = IF launch = "succeeded" THEN "watch" ELSE "cleanup"
  /\ launch' = "idle"
  /\ UNCHANGED <<PnpVars, ResourceVars, CpuVars, RamVars, ept, waitVmExit,
                 handle, ram, frames, file>>

-----------------------------------------------------------------------------
(* Step 10: the watcher, and the end.                                      *)

\* Outside D0 the framework holds the request in its queue: the loader is then
\* still here.
SymbioseWaitVmExit ==
  /\ pc = "watch"
  /\ \/ Dispatched /\ waitVmExit' = "pended" /\ pc' = "waiting"
     \/ UNCHANGED waitVmExit /\ pc' = "cleanup"
  /\ UNCHANGED <<PnpVars, ResourceVars, CpuVars, launch, RamVars, ept, handle,
                 ram, frames, file>>

\* A shutdown is acknowledged, a triple fault ends the loop, any other exit
\* goes round again.
AfterEvent == [shutdown |-> {"ack"}, exit |-> {"watch", "cleanup"}]

VmExitWatcherLoop ==
  /\ pc = "waiting" /\ waitVmExit \in DOMAIN AfterEvent
  /\ pc' \in AfterEvent[waitVmExit]
  /\ waitVmExit' = "none"
  /\ UNCHANGED <<PnpVars, ResourceVars, CpuVars, launch, RamVars, ept, handle,
                 ram, frames, file>>

\* SHUTDOWN_ACK is sent with no OVERLAPPED structure: once the driver holds
\* it, the call does not return.
SendShutdownAck ==
  /\ pc = "ack"
  /\ \/ Dispatched /\ pc' = "acking"
     \/ pc' = "cleanup"
  /\ UNCHANGED <<deviceVars, handle, ram, frames, file>>

Cleanup ==
  /\ pc = "cleanup" /\ pc' = "off"
  /\ handle' = FALSE /\ ram' = None /\ frames' = Unmapped
  /\ UNCHANGED <<deviceVars, file>>

\* The system frees what a process held, and cancels its pended request.  A
\* thread that runs the launch cannot be stopped.
LoaderKilled ==
  /\ pc \notin {"off", "inLaunch"}
  /\ pc' = "off" /\ handle' = FALSE /\ ram' = None /\ frames' = Unmapped
  /\ file' = FALSE /\ waitVmExit' = "none"
  /\ UNCHANGED <<PnpVars, ResourceVars, CpuVars, launch, RamVars, ept>>

-----------------------------------------------------------------------------
LoaderStep ==
  \/ ParseConfig \/ OpenSymbioseDevice \/ AllocateGuestRam
  \/ SymbioseRegisterRam
  \/ ReadFileToBuffer("kernelFile", "kernel")
  \/ SymbioseLoadPayload("kernel")
  \/ ReadFileToBuffer("initrdFile", "initrd")
  \/ SymbioseLoadPayload("initrd")
  \/ SymbioseSetBootParams \/ SymbioseEptMapShm
  \/ SymbioseVmLaunch \/ VmLaunchReturns
  \/ SymbioseWaitVmExit \/ VmExitWatcherLoop \/ SendShutdownAck
  \/ Cleanup \/ LoaderKilled

\* No device is removed under an open handle.
RemoveClosedDevice == ~handle /\ RemoveDevice

\* The machine starts again after a fault.
Reboot ==
  /\ host = "crashed"
  /\ driver' = "unloaded" /\ pnp' = "none" /\ devCtx' = None /\ gDevCtx' = None
  /\ BarCount' = 0 /\ mapped' = 0 /\ InterruptCount' = 0 /\ interrupts' = 0
  /\ host' = "up" /\ vmxe' = {} /\ inVmx' = {} /\ VmxEnabled' = FALSE
  /\ overlapped' = FALSE
  /\ launch' = "idle" /\ GuestRamBase' = None /\ GuestRamPa' = NoFrame
  /\ ept' = Unmapped /\ waitVmExit' = "none"
  /\ pc' = "off" /\ handle' = FALSE /\ ram' = None /\ frames' = Unmapped
  /\ file' = FALSE

DeviceStep == FrameworkStep \/ RemoveClosedDevice \/ VmLaunchStep

Next ==
  \/ host = "up" /\ DeviceStep /\ (UNCHANGED loaderVars)
  \/ host = "up" /\ LoaderStep
  \/ Reboot

\* Windows schedules the power thread and a loader whose request is complete.
Spec ==
  /\ Init /\ [][Next]_vars
  /\ WF_vars(host = "up" /\ D0ExitTimeout /\ (UNCHANGED loaderVars))
  /\ WF_vars(host = "up" /\ VmExitWatcherLoop)

-----------------------------------------------------------------------------
(* Properties.                                                             *)

\* While the machine runs, the flag SymbioseEvtDeviceD0Exit decides by is set
\* only if there is a processor to take out of VMX operation, and is clear
\* with one left in it only after a launch on a second processor: however
\* a launch failed, on whichever processors it ran, and whatever
\* happened to the device since.  (Two launches on two processors set one flag,
\* and the first VMXOFF of any of them clears it.)
VmxFlagTracksCpus ==
  host = "up" =>
    /\ VmxEnabled => inVmx # {}
    /\ inVmx # {} => VmxEnabled \/ overlapped

\* acpi_handler.c:142: "Stop the VM - VMXOFF before driver powers down".  A
\* device without power leaves no processor in VMX operation, if the power
\* thread got over its VMXOFF at all and no launch entered VMX operation on a
\* second processor; the one VMXOFF of D0Exit cannot take two out of it.
PoweredOffOutsideVmx ==
  host = "up" /\ pnp \in {"none", "added", "low", "released"} =>
    inVmx = {} \/ overlapped

\* The guest is launched over the buffer this loader registered, never over
\* one an earlier loader registered and freed.
LaunchOverOwnRam == pc = "inLaunch" => GuestRamBase = ram /\ ram # None

\* A loader that has ended, by any of its error paths, holds no memory, no
\* handle and no request.
LoaderReleasesAll ==
  pc = "off" => ram = None /\ ~handle /\ ~file /\ waitVmExit = "none"

\* The context VMX and ACPI code reach through their global is the context of
\* the device that is there, after removals, failed additions and reloads.
ContextIsLive == pnp # "none" => gDevCtx = devCtx /\ devCtx # None

\* A loader whose request is pended when the power-down begins learns of
\* the shutdown (acpi_handler.c:103-121), and does not wait for ever, unless
\* the machine faults first.
ShutdownReachesLoader ==
  (pnp = "exiting" /\ pc = "waiting") ~> (pc # "waiting" \/ host = "crashed")
=============================================================================
