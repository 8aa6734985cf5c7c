---------------------------- MODULE BridgeDevice ----------------------------
(***************************************************************************)
(* The device of symbiose_bridge.sys: its PnP and power callbacks          *)
(* (02_Symbiose_Bridge/src/driver_entry.c, symbiose_bridge.c,              *)
(* acpi_handler.c), the synchronous IOCTLs (ioctl_handler.c) and the       *)
(* launch sequence of the hypervisor (vmx_hypervisor.c, SwitchToChaos.asm).*)
(* ChaosLoader.tla adds the program that sends the IOCTLs.                 *)
(*                                                                         *)
(* Three owners share the state: the framework, which calls the callbacks; *)
(* the dispatch thread of a VMLAUNCH, which the guest's exits interrupt    *)
(* (variable launch); and the machine's processors (host, vmxe, inVmx).    *)
(* CR4 and VMX operation are each processor's own, and nothing ties a      *)
(* thread of the driver to one: every instruction runs on any of them.  It *)
(* faults when CR4.VMXE is cleared in VMX operation, VMXON executed with   *)
(* CR4.VMXE clear, or another VMX instruction outside VMX operation.       *)
(*                                                                         *)
(* What hardware and framework decide is left open: an allocation, a       *)
(* mapping or a VMX instruction may succeed or fail.  The framework keeps  *)
(* to its contract: it dispatches no IOCTL outside D0 and does not call    *)
(* EvtDeviceD0Exit while a dispatch thread runs.                           *)
(*                                                                         *)
(* An operator marked "Slip" is a plausible mistake in the definition      *)
(* after it; no specification uses it.                                     *)
(***************************************************************************)
EXTENDS Integers

CONSTANTS
  Contexts,       \* addresses a SYMBIOSE_DEVICE_CONTEXT can be given
  Rams,           \* addresses of the buffers loaders allocate for guest RAM
  None,           \* NULL
  Cpus,           \* the logical processors of the machine
  MaxBars,        \* SYMBIOSE_MAX_BARS
  MaxInterrupts,  \* SYMBIOSE_MAX_INTERRUPTS
  Pages,          \* size of guest RAM, in pages
  LastFrame       \* bound: the host has page frames 1..LastFrame

ASSUME NullAssumption == None \notin Contexts \cup Rams
ASSUME CpusAssumption == Cpus # {}
ASSUME SizeAssumption ==
  /\ MaxBars \in Nat /\ MaxInterrupts \in Nat
  /\ Pages \in Nat \ {0} /\ LastFrame \in Nat

VARIABLES
  driver,          \* "loaded" between DriverEntry and EvtDriverUnload
  pnp,             \* where the device stands in the framework's life cycle
  devCtx,          \* the context of the present device
  gDevCtx,         \* the global that VMX and ACPI code use for it
  BarCount,        \* entries of BarVa in use
  mapped,          \* MmMapIoSpace mappings that were not unmapped
  InterruptCount,  \* entries of Interrupt in use
  interrupts,      \* WDFINTERRUPT objects that exist
  host,            \* "up", or "crashed" after a fault in the kernel
  vmxe,            \* the processors with CR4.VMXE set
  inVmx,           \* the processors in VMX operation
  VmxEnabled,      \* what the driver thinks of it
  overlapped,      \* history: VMXON succeeded with another one in VMX operation
  launch,          \* where SymbioseVmLaunch stands
  GuestRamBase,    \* the registered buffer
  GuestRamPa,      \* the frame taken for its physical address
  ept,             \* guest page -> host frame
  waitVmExit       \* the loader's WAIT_VMEXIT request, and its event

PnpVars      == <<driver, pnp, devCtx, gDevCtx>>
ResourceVars == <<BarCount, mapped, InterruptCount, interrupts>>
CpuVars      == <<host, vmxe, inVmx, VmxEnabled, overlapped>>
RamVars      == <<GuestRamBase, GuestRamPa>>

deviceVars == <<PnpVars, ResourceVars, CpuVars, launch, RamVars, ept, waitVmExit>>

PnpStates == {"none", "added", "prepared", "d0", "dozing", "exiting", "low",
              "released"}
LaunchPC  == {"idle", "cr4", "vmxon", "vmcs", "stack", "ept", "write",
              "enter", "guest", "cleanup", "failed", "succeeded"}

\* The frame MmGetPhysicalAddress gives for a page that is not resident.
NoFrame == 0
Unmapped == [p \in 1..Pages |-> NoFrame]

DeviceTypeOK ==
  /\ driver \in {"unloaded", "loaded"}
  /\ pnp \in PnpStates
  /\ devCtx \in Contexts \cup {None} /\ gDevCtx \in Contexts \cup {None}
  /\ BarCount \in 0..MaxBars /\ mapped \in Nat
  /\ InterruptCount \in 0..MaxInterrupts /\ interrupts \in 0..MaxInterrupts
  /\ host \in {"up", "crashed"}
  /\ vmxe \subseteq Cpus /\ inVmx \subseteq Cpus
  /\ VmxEnabled \in BOOLEAN /\ overlapped \in BOOLEAN
  /\ launch \in LaunchPC
  /\ GuestRamBase \in Rams \cup {None} /\ GuestRamPa \in 0..LastFrame
  /\ ept \in [1..Pages -> Nat]
  /\ waitVmExit \in {"none", "pended", "exit", "shutdown"}

DeviceInit ==
  /\ driver = "unloaded" /\ pnp = "none" /\ devCtx = None /\ gDevCtx = None
  /\ BarCount = 0 /\ mapped = 0 /\ InterruptCount = 0 /\ interrupts = 0
  /\ host = "up" /\ vmxe = {} /\ inVmx = {} /\ VmxEnabled = FALSE
  /\ overlapped = FALSE
  /\ launch = "idle" /\ GuestRamBase = None /\ GuestRamPa = NoFrame
  /\ ept = Unmapped /\ waitVmExit = "none"

-----------------------------------------------------------------------------
(* PnP callbacks.                                                          *)

\* A DriverEntry whose WdfDriverCreate fails leaves nothing behind.
DriverEntry ==
  /\ driver = "unloaded"
  /\ driver' = "loaded"
  /\ UNCHANGED <<pnp, devCtx, gDevCtx, ResourceVars, CpuVars, launch, RamVars,
                 ept, waitVmExit>>

\* The driver's globals go with its image.
EvtDriverUnload ==
  /\ driver = "loaded" /\ pnp = "none"
  /\ driver' = "unloaded" /\ gDevCtx' = None
  /\ UNCHANGED <<pnp, devCtx, ResourceVars, CpuVars, launch, RamVars, ept,
                 waitVmExit>>

\* Slip: the global is set for the first device only.
VmxSetDeviceContextOnce(c) == gDevCtx' = IF gDevCtx = None THEN c ELSE gDevCtx

VmxSetDeviceContext(c) == gDevCtx' = c

\* The context is zeroed and made the global one (VMX and ACPI code have one
\* each, set together) before the interface and the queue are created.  When
\* one of these fails the framework deletes the device, and the global keeps
\* the address.  What fails earlier changes nothing.
EvtDriverDeviceAdd(c) ==
  /\ driver = "loaded" /\ pnp = "none"
  /\ VmxSetDeviceContext(c)
  /\ \/ pnp' = "added" /\ devCtx' = c
     \/ UNCHANGED <<pnp, devCtx>>
  /\ BarCount' = 0 /\ InterruptCount' = 0 /\ VmxEnabled' = FALSE
  /\ GuestRamBase' = None /\ GuestRamPa' = NoFrame /\ ept' = Unmapped
  /\ UNCHANGED <<driver, mapped, interrupts, host, vmxe, inVmx, overlapped,
                 launch, waitVmExit>>

\* Slip: nobody looks whether the interrupt table has room.
PrepareHardwareUnbounded(b, i) ==
  /\ pnp \in {"added", "released"} /\ InterruptCount <= MaxInterrupts
  /\ BarCount + b <= MaxBars
  /\ BarCount' = BarCount + b /\ mapped' = mapped + b
  /\ InterruptCount' = InterruptCount + i /\ interrupts' = interrupts + i
  /\ pnp' = "prepared"
  /\ UNCHANGED <<driver, devCtx, gDevCtx, CpuVars, launch, RamVars, ept,
                 waitVmExit>>

\* i interrupt objects are created, as many as the table has room for.
SymbioseCreateInterrupt(i) ==
  /\ InterruptCount + i <= MaxInterrupts
  /\ InterruptCount' = InterruptCount + i /\ interrupts' = interrupts + i

\* b memory resources get mapped and i interrupts created: what does not fit in
\* the tables is skipped, and any of the attempts may fail.
EvtDevicePrepareHardware(b, i) ==
  /\ pnp \in {"added", "released"}
  /\ BarCount + b <= MaxBars
  /\ BarCount' = BarCount + b /\ mapped' = mapped + b
  /\ SymbioseCreateInterrupt(i)
  /\ pnp' = "prepared"
  /\ UNCHANGED <<driver, devCtx, gDevCtx, CpuVars, launch, RamVars, ept,
                 waitVmExit>>

\* Every BAR of the table is unmapped.  The framework deletes the interrupt
\* objects, but InterruptCount stays what it was.
EvtDeviceReleaseHardware ==
  /\ pnp = "low"
  /\ mapped' = mapped - BarCount
  /\ BarCount' = 0 /\ interrupts' = 0 /\ pnp' = "released"
  /\ UNCHANGED <<driver, devCtx, gDevCtx, InterruptCount, CpuVars, launch,
                 RamVars, ept, waitVmExit>>

\* The framework deletes the device and, with it, its context.
RemoveDevice ==
  /\ pnp \in {"added", "released"}
  /\ pnp' = "none" /\ devCtx' = None
  /\ UNCHANGED <<driver, gDevCtx, ResourceVars, CpuVars, launch, RamVars, ept,
                 waitVmExit>>

-----------------------------------------------------------------------------
(* Power callbacks: the Death Rattle.                                      *)

EvtDeviceD0Entry ==
  /\ pnp \in {"prepared", "dozing", "low"}
  /\ pnp' = "d0"
  /\ UNCHANGED <<driver, devCtx, gDevCtx, ResourceVars, CpuVars, launch,
                 RamVars, ept, waitVmExit>>

\* Slip: the pended WAIT_VMEXIT is not completed.
D0ExitUntold(target) ==
  /\ pnp = "d0" /\ launch = "idle"
  /\ pnp' = IF target \in {"D1", "D2"} THEN "dozing" ELSE "exiting"
  /\ UNCHANGED <<driver, devCtx, gDevCtx, ResourceVars, CpuVars, launch,
                 RamVars, ept, waitVmExit>>

\* D1 and D2 pass at once.  For D3 a pended WAIT_VMEXIT is completed with the
\* shutdown event, and the callback waits for the acknowledgement.
EvtDeviceD0Exit(target) ==
  /\ pnp = "d0" /\ launch = "idle"
  /\ \/ target \in {"D1", "D2"} /\ pnp' = "dozing" /\ UNCHANGED waitVmExit
     \/ /\ target \in {"D3", "D3Final"} /\ pnp' = "exiting"
        /\ waitVmExit' = IF waitVmExit = "pended" THEN "shutdown" ELSE waitVmExit
  /\ UNCHANGED <<driver, devCtx, gDevCtx, ResourceVars, CpuVars, launch,
                 RamVars, ept>>

\* VMXOFF on the processor the thread is on, CR4.VMXE on the one it has come to
\* by then, and the flag.
VmxOff ==
  \E off, clear \in Cpus :
    /\ inVmx' = inVmx \ {off} /\ vmxe' = vmxe \ {clear} /\ VmxEnabled' = FALSE
    /\ host' = IF off \notin inVmx \/ clear \in inVmx' THEN "crashed" ELSE host
    /\ UNCHANGED overlapped

\* Slip: the power is taken away with a processor still in VMX operation.
D0ExitKeepsVmx ==
  /\ pnp = "exiting"
  /\ pnp' = "low"
  /\ UNCHANGED <<driver, devCtx, gDevCtx, ResourceVars, CpuVars, launch,
                 RamVars, ept, waitVmExit>>

\* The wait ends after 30 seconds: nothing calls SymbioseHandleShutdownAck,
\* so nothing ever sets ShutdownAckEvent.  Then VMX operation is left.
D0ExitTimeout ==
  /\ pnp = "exiting"
  /\ pnp' = "low"
  /\ IF VmxEnabled THEN VmxOff ELSE UNCHANGED CpuVars
  /\ UNCHANGED <<driver, devCtx, gDevCtx, ResourceVars, launch, RamVars, ept,
                 waitVmExit>>

-----------------------------------------------------------------------------
(* Synchronous IOCTLs, and the launch sequence of the last of them.        *)

\* The framework dispatches an IOCTL; one dispatch thread at a time, for the
\* one loader waits for each of its IOCTLs.
Dispatched == pnp = "d0" /\ launch = "idle" /\ host = "up"

\* The buffer's first page stands for all of it: frame is where that page is,
\* or NoFrame when it is not resident.
SymbioseRegisterGuestRam(r, frame) ==
  /\ GuestRamBase' = r /\ GuestRamPa' = frame
  /\ UNCHANGED <<PnpVars, ResourceVars, CpuVars, launch, ept, waitVmExit>>

\* LOAD_KERNEL, LOAD_INITRD, SET_BOOT_PARAMS and EPT_MAP_SHM are stubs: they
\* succeed and change nothing.
StubIoctl == UNCHANGED deviceVars

\* IOCTL_SYMBIOSE_VMLAUNCH enters SymbioseVmLaunch, which does not look whether
\* VMX operation is on already.
HandleVmLaunch ==
  /\ launch' = "cr4"
  /\ UNCHANGED <<PnpVars, ResourceVars, CpuVars, RamVars, ept, waitVmExit>>

LaunchFrame == <<PnpVars, ResourceVars, RamVars>>

\* SymbioseVmxOn up to the allocation of the region.  When the feature control
\* or the allocation fails, CR4.VMXE stays set.
VmxOnPrepare ==
  /\ launch = "cr4"
  /\ \E cpu \in Cpus : vmxe' = vmxe \cup {cpu}
  /\ launch' \in {"vmxon", "failed"}
  /\ UNCHANGED <<LaunchFrame, host, inVmx, VmxEnabled, overlapped, ept,
                 waitVmExit>>

\* A failed VMXON: CR4.VMXE is cleared, on any processor.
ClearVmxe ==
  /\ \E cpu \in Cpus :
       /\ vmxe' = vmxe \ {cpu}
       /\ host' = IF cpu \in inVmx THEN "crashed" ELSE host
  /\ launch' = "failed"
  /\ UNCHANGED <<inVmx, VmxEnabled, overlapped>>

\* VMXON on the processor the thread has come to: it faults where CR4.VMXE is
\* clear, fails, as it must in VMX operation, or succeeds.
SymbioseVmxOn ==
  /\ launch = "vmxon"
  /\ \/ /\ vmxe # Cpus
        /\ host' = "crashed" /\ UNCHANGED <<launch, vmxe, inVmx, VmxEnabled, overlapped>>
     \/ vmxe # {} /\ ClearVmxe
     \/ \E cpu \in vmxe \ inVmx :
          /\ inVmx' = inVmx \cup {cpu} /\ VmxEnabled' = TRUE
          /\ overlapped' = (overlapped \/ inVmx # {})
          /\ launch' = "vmcs"
          /\ UNCHANGED <<host, vmxe>>
  /\ UNCHANGED <<LaunchFrame, ept, waitVmExit>>

\* A step of SymbioseVmLaunch that leads to the next one, or to
\* cleanup_vmxoff when its allocation or instruction fails.
LaunchStep(from, to) ==
  /\ launch = from
  /\ launch' \in {to, "cleanup"}
  /\ UNCHANGED <<LaunchFrame, CpuVars, waitVmExit>>

\* The VMX instructions of the step named from fault on a processor outside VMX
\* operation, where the thread may be by now.
FaultsOutsideVmx(from) ==
  /\ launch = from /\ inVmx # Cpus
  /\ host' = "crashed"
  /\ UNCHANGED <<LaunchFrame, launch, vmxe, inVmx, VmxEnabled, overlapped,
                 waitVmExit>>

SymbioseVmcsClear ==
  (LaunchStep("vmcs", "stack") \/ FaultsOutsideVmx("vmcs")) /\ UNCHANGED ept

AllocateHostStack == LaunchStep("stack", "ept") /\ UNCHANGED ept

\* Guest page p is mapped to the p-th frame from GuestRamPa on, whatever
\* frames the buffer has.  A failure leaves the old EPT pointer.
SymbioseEptBuild ==
  /\ LaunchStep("ept", "write")
  /\ ept' = IF launch' = "write" THEN [p \in 1..Pages |-> GuestRamPa + p - 1]
                                 ELSE ept

\* The VMCS fields are written; no VMWRITE's result is looked at.
SymbioseVmcsWrite ==
  \/ /\ launch = "write" /\ launch' = "enter"
     /\ UNCHANGED <<LaunchFrame, CpuVars, ept, waitVmExit>>
  \/ FaultsOutsideVmx("write") /\ UNCHANGED ept

\* VMLAUNCH: the guest runs, or an error comes back.
SwitchToChaos ==
  (LaunchStep("enter", "guest") \/ FaultsOutsideVmx("enter")) /\ UNCHANGED ept

\* SymbioseCompleteVmExitIrp.
CompleteVmExitIrp ==
  waitVmExit' = IF waitVmExit = "pended" THEN "exit" ELSE waitVmExit

\* HOST_RIP is the C function itself (vmx_hypervisor.c:52), not the assembly
\* stub around it: the processor comes to it with no return address on the
\* host stack.  It does its work, and its return goes wherever the memory
\* above that stack says: a fault, or, as the stub's comments have it, a
\* return to SymbioseVmLaunch with any result.  Never does it resume the
\* guest or leave VMX operation.
HandleVmExit(reason) ==
  /\ launch = "guest"
  /\ IF reason \in {"io", "interrupt", "entryFailure"}
     THEN UNCHANGED waitVmExit
     ELSE CompleteVmExitIrp
  /\ \/ host' = "crashed" /\ UNCHANGED launch
     \/ launch' \in {"cleanup", "succeeded"} /\ UNCHANGED host
  /\ UNCHANGED <<LaunchFrame, ept, vmxe, inVmx, VmxEnabled, overlapped>>

\* Slip: the flag is not reset.
CleanupKeepsFlag ==
  /\ launch = "cleanup"
  /\ launch' = "failed"
  /\ \E cpu \in inVmx : inVmx' = inVmx \ {cpu} /\ vmxe' = vmxe \ {cpu}
  /\ UNCHANGED <<LaunchFrame, host, VmxEnabled, overlapped, ept, waitVmExit>>

\* cleanup_vmxoff of a launch that failed after VMXON.
CleanupVmxOff ==
  /\ launch = "cleanup"
  /\ launch' = "failed"
  /\ VmxOff
  /\ UNCHANGED <<LaunchFrame, ept, waitVmExit>>

-----------------------------------------------------------------------------
\* The steps of the device that need no loader.
FrameworkStep ==
  \/ DriverEntry \/ EvtDriverUnload
  \/ \E c \in Contexts : EvtDriverDeviceAdd(c)
  \/ \E b \in 0..MaxBars, i \in 0..MaxInterrupts : EvtDevicePrepareHardware(b, i)
  \/ EvtDeviceReleaseHardware
  \/ EvtDeviceD0Entry
  \/ \E t \in {"D1", "D2", "D3", "D3Final"} : EvtDeviceD0Exit(t)
  \/ D0ExitTimeout

VmLaunchStep ==
  \/ VmxOnPrepare \/ SymbioseVmxOn \/ SymbioseVmcsClear \/ AllocateHostStack
  \/ SymbioseEptBuild \/ SymbioseVmcsWrite \/ SwitchToChaos
  \/ \E reason \in {"io", "interrupt", "entryFailure", "other"} :
       HandleVmExit(reason)
  \/ CleanupVmxOff
=============================================================================
