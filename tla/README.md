# TLA+ models of the ContinuumOS kernel

ContinuumOS (`src/rust_kernel/src/`) is a freestanding 32-bit x86 kernel in Rust.
It runs on one CPU with no scheduler. `rust_main` (lib.rs) initialises, in this order:

1. the VGA terminal;
2. the GDT and the IDT;
3. the PIC and the PIT timer (IRQ0 unmasked);
4. the physical frame allocator (memory.rs);
5. the kernel heap (heap.rs);
6. the RAM filesystem (ramfs.rs);
7. identity paging (paging.rs);
8. the keyboard (IRQ1 unmasked).

It then runs the boot self-tests (`tests/`) and prints the shell prompt.

## Inventory

| Part | Source | State | Operations |
|---|---|---|---|
| Frame allocator | memory.rs | `BITMAP` (u32 words), `USED_FRAMES` | initialize, allocate_frame, free_frame, free_frames |
| Kernel heap | heap.rs | `FREE_LIST` and the in-band `Block` headers in the 8 MiB arena | init_heap, kmalloc, kfree |
| RAM filesystem | ramfs.rs | `ROOT` node tree in heap memory, `FDS[16]` | fs_init, fs_create_node, fs_add_child, fs_find_child, fs_touch, fs_open, fs_read, fs_write, fs_close |
| Syscalls | syscalls.rs | none | opcode dispatch to the fs_* calls |
| Interrupts | idt.rs, isr.rs, pic.rs, timer.rs, keyboard.rs | IDT, `HANDLERS[256]`, the 8259A pair and the PIT behind their ports, `TICKS` | init_idt, pic_remap, pic_unmask_irq, init_timer, keyboard_install, register_interrupt_handler, isr_handler, pic_send_eoi, timer_handler, keyboard_callback |
| Paging | paging.rs | `PAGE_DIRECTORY`, `PAGE_TABLES[4]` | vmm_init, vmm_enable, vmm_map |
| Self-tests | tests/*.rs | none | heaptest, memtest, pagetest |
| Console, shell, editor | vga.rs, log.rs, shell.rs, editor.rs | cursor, line buffer | output, handle_key |
| GDT | gdt.rs | `GDT[5]` | init_gdt (set_entry, load_gdt) |
| Port I/O | port_io.rs | none (the devices hold it) | outb, inb, io_wait; inw is never called |

How the parts interact:

- The heap and the filesystem share one arena. Every FSNode and every file's 1 KiB data buffer comes from `kmalloc`.
- The frame allocator believes all 16 MiB are free, including the kernel and the heap arena.
- vmm_map writes page-table entries through a physical address used as a pointer. That is right only while the tables' pages stay identity-mapped.
- The interrupt chain would call the timer and keyboard handlers, but no `sti` is ever executed and no gate points at a stub. So no interrupt is delivered in the code as written.

## Modules

| Module | Models | State ↔ code |
|---|---|---|
| `FrameAllocSpec` | what the allocator promises | `allocated` is a set of frames; `result` is the last allocation |
| `FrameAlloc` | memory.rs | `BITMAP`, `USED_FRAMES` as in the code; `held` (addresses callers own) and `result` are history |
| `MCFrameAlloc` | constants | 2 words of 4 bits (8 frames) |
| `HeapSpec` | what the heap promises | `inuse` is a set of disjoint `[start, len]` ranges in the arena; `result` is the last kmalloc result |
| `Heap` | heap.rs | `FREE_LIST`; `blocks` maps each header address to `{size, next, free}`; `halted` is an overflow panic; `live` is the callers' allocations |
| `MCHeap` | constants | 8-bit usize, a 128-byte arena at 16, 12-byte headers |
| `RamFS` | ramfs.rs + syscalls.rs over `Heap` | `nodes` maps a node's heap address to {type, size, data, parent, children}; `FDS` as in the code; `mem` holds the bytes written, by address. History variables: `content` (each file's byte string under the spec's semantics), `clobbered` (heap structures a write ran over); `rv`, `rbuf`, `last` record the last call |
| `MCRamFS` | constants | 8-bit usize, a 128-byte arena at 64, 4-byte node, 32-byte buffer, 2 descriptors, 1 child slot |
| `BootTests` | rust_main from memory::initialize to run_tests: memtest.rs, pagetest.rs, heaptest.rs, composed over instances of `FrameAlloc`, `Paging` and `Heap` | `pc` is the boot's statement; `frame`, `frames`, `i`, `j`, `ok` and `ptr[0..5]` are the tests' locals (`ptr[0]` is the root node). Paging's `pc` is renamed `vm`. A pattern store or load through a frame address goes through the MMU walk into `pmem` |
| `MCBootTests` | constants | the page-table addresses for MCBootTests.cfg |
| `PageMapSpec` | what paging promises | `map` sends each virtual page to `[frame, rw]` or NotMapped; `call` is the last vmm_map request |
| `Paging` | paging.rs, with the MMU as environment | `pmem` holds the words of the directory, the tables and page 0, by byte address; `CR3`, `PG` (CR0.PG) and `tlb` are CPU state; `pc` is rust_main's progress through vmm_init and vmm_enable |
| `MCPaging` | constants | 2-bit indices and 16-byte pages (8-bit addresses), 2 of 4 directory slots filled, the directory at 16 and the tables at 32 and 48 |
| `Console` | vga.rs, shell.rs, editor.rs, log.rs, keyboard_callback, the panic handler | `term` is TERMINAL: `row`, `column`, `color`, the framebuffer `screen` (cell → [char, attribute]), the CRTC `cursor`, and the history `out` of what was written since the last clear. `BUFFER`, `INDEX` and `ACTIVE` are the shell's and editor's statics. `panic` writes the banners and the location only: in no_std `PanicInfo::payload()` is never a `&str`, so the message branch of lib.rs:31-34 never prints |
| `MCConsole` | constants | a 3 × 2 screen, a 3-byte line buffer, one-byte strings, messages that wrap or carry a line break |
| `PicSpec` | what the interrupt-controller setup promises | `step` (which routines have run), `operational` (both 8259As initialised in 8086 cascade mode), `base`/`slaveBase`, the set of `masked` lines, channel 0 `pit` as [mode, reload, counting], `handlers` |
| `Interrupts` | gdt.rs, idt.rs, isr.rs, pic.rs, port_io.rs, timer.rs, keyboard.rs, and rust_main's order | `GDT` (the five entries with set_entry's field split), `gates` (the IDT entries of the vectors in use), `HANDLERS`; `master` and `slave` are the 8259As (initialisation state, vector base, cascade, ICW4 flags, `imr`); `pitDev` is PIT channel 0 (access and counting mode, the lo/hi byte latch, reload, counting); `regs` are the locals a1, a2, value, check; `prog` is the port operations left of the routine running and `snap` the abstract state it started from (history); `IRR`, `ISR`, `TICKS`; `IFlag` is EFLAGS.IF; `reset` is a triple fault |
| `MCInterrupts` | constants | the firmware mask pairs: SeaBIOS's 0xB8/0x8E, all masked, all open |

Each operation is one action, taken as a whole:

- `kmalloc` covers the early returns, the rounding, the first-fit walk, the split and the mark-used.
- `kfree` covers the NULL check, the mark-free and the forward coalesce.
- `allocate_frame` covers the `first_free` scan, the bit set and the counter.

RamFS calls the heap through `Heap`'s pure operators `Malloc` and `Free`. That lets `fs_touch`, which makes two kmalloc calls, be one action. `syscall(num, a1, a2, a3)` is the action through which callers reach open, read, write and close. It dispatches on `num` exactly as syscalls.rs does.

Paging writes the code's masks as the arithmetic they amount to. `x & 0xFFFFF000` is `PageOf(x)`. `| 3` on an aligned address is `+ 3`. Testing a flag bit is `Bit(x, b)`. vmm_map stores through its table pointer as a virtual address, which the MMU translates (`Phys`). So the model also covers a store that lands somewhere other than the table.

Interrupts keeps only the vectors the kernel uses (#DF, #GP, 32, 33). init_idt's loop sets all 256 gates alike. init_gdt stores the five descriptors field by field, as set_entry splits them. load_gdt's segment loads then succeed only if the CPU's decoding of those fields finds a present ring-0 data segment at 0x10 and a code segment at 0x08; otherwise the machine resets. A gate is usable only if its selector decodes to a ring-0 code segment of that GDT, so init_idt's selector 0 (the null descriptor) makes every gate unusable.

pic_remap, init_timer and keyboard_install are run port operation by port operation. `Routine` starts one by loading its operations into `prog`; `PortStep` executes the head (`Exec`): an `outb` reaches the device decoding the port (`PicWrite` for 0x20/0x21 and 0xA0/0xA1, `PitCommand` for 0x43, `PitData` for 0x40), an `inb` of a PIC data port stores the mask in a local, and `register_interrupt_handler` adds to `HANDLERS`. io_wait's write to port 0x80 reaches no device. The 8259A model follows its datasheet: ICW1 clears the mask and expects ICW2, ICW3 (unless single) and ICW4 (if requested) on the data port, and only then is a data write the mask. The refinement mapping to `PicSpec` reads the devices (`Live`) between routines and the state a routine started from (`snap`) while it runs, so each routine is one abstract step.

`Spec` includes the CPU's delivery of an IRQ (`Deliver`). IF is clear when rust_main is entered (spec §5) and no code executes `sti`, so `Deliver` is never enabled. `SetupSpec` drops it, leaving the same behaviours, so that a passing run has no action that cannot fire. In `Deliver`, isr_handler's EOI and keyboard_callback's own are `pic_send_eoi`: a non-specific EOI clears the lowest IRQ in service, and nothing once none is.

Arithmetic is done at `WordBits` width. The constant `OverflowChecks` selects the build: a debug build panics on overflow (modelled as `halted`), a release build wraps.

## Runs

| Run | cfg | Expect | Shows |
|---|---|---|---|
| frame_alloc | MCFrameAlloc.cfg | pass | `AllocatorConsistent`: the set bits are exactly the frames callers hold, and `free_frames()` counts the clear bits. `FrameRefinement`: the bitmap allocator implements `FrameAllocSpec` (lowest free frame first; None only when full). 9,473 states. |
| heap | MCHeap.cfg | pass | `HeapTiles`: the headers tile the arena along the list. `AllocationsDisjoint`: caller ranges never overlap. `HeapRefinement`: the heap implements `HeapSpec`. Requests are {0, 8, 20, 40}: they cover the zero request, splits, the unsplit path and exhaustion. 1,757 states. |
| ramfs | MCRamFS.cfg | pass | `TreeWellFormed`: the parent and child links agree. `ContentsPreserved`: every file's bytes in memory are its byte string under the spec's write semantics. `OffsetWithinFile`: no used descriptor on a file points past its end, so fs_read's `size - offset` never wraps; it rests on fs_open resetting a reused slot, fs_write raising the size, and fs_read clamping, with two descriptors on one file. `ReadReturnsContent`: every successful read returns `min(n, size - offset)` bytes, and they are the right ones. The 128-byte arena lets a second fs_touch fail on its data buffer (the partial failure), the second child is refused, and the 2-slot FD table fills. 206,920 states. |
| console | MCConsole.cfg | pass | The callers are `log` lines, `shell::init`, keys through `keyboard_callback`, `editor::start` and the panic path. Keys are 'h', 'p', Enter, backspace and Escape. For any mix of these, `ScreenShowsOutput` holds: the screen shows the last rows of the output since the last clear, top-aligned. It counts a line break, and a row reaching the width, as the end of a line. Each cell keeps the color it was written in. The terminal's row and column, and once anything is written the CRTC cursor, mark the end of the text. `TypeOK` keeps the line buffer index below its length. 226,542 states. |
| ramfs_open_any_node | MCRamFSOpenAny.cfg | violation | `syscall(0, NULL)`, the trace TLC finds, makes a used descriptor with a null node, which spec §3 forbids. `syscall(0, ROOT)` would make one on a directory. |
| ramfs_oom_alias | MCRamFSOom.cfg | violation | With a 160-byte arena, two files get NULL data. Writing through one changes the other, which breaks the round trip. |
| ramfs_write_overrun | MCRamFSOverrun.cfg | violation | Callers that write 16 bytes past the 32-byte buffer overwrite the next block header and node record. |
| heap_huge_request | MCHeapHuge.cfg | violation | In a release build `kmalloc(usize::MAX - k)` rounds to 0 and returns a block of 0 bytes, so the caller's range overlaps the next block. |
| paging | MCPaging.cfg | pass | `TypeOK`: vmm_map stores only into the tables, or into page 0 through an unpopulated slot. `TlbCoherent`: no TLB entry ever differs from the tables' walk, under any order of remaps, accesses and evictions. `PagingRefinement`: the tables implement `PageMapSpec`. That means identity for the first `TABLES` × 4 MiB after vmm_enable, and each vmm_map into a populated slot sets that page's frame and writability. The calls include pagetest's map and unmap of 0x400000, an unaligned frame address, read-only maps and a call into an unpopulated slot. 5,770 states. |
| irq_setup | MCIrqSetup.cfg | pass | Module MCInterrupts under `SetupSpec`, from each firmware mask pair. `NoTripleFault`: load_gdt's reloads of 0x10 and 0x08 find the descriptors init_gdt stored (decoded field by field as the CPU does) to be ring-0 data and code, so the boot never resets. `PicRefinement`: the port-level setup implements `PicSpec`, so pic_remap ends with both controllers in 8086 cascade mode at 0x20/0x28 holding exactly the firmware's masks, init_timer leaves channel 0 in mode 3 counting 1193 with vector 32 registered and only IRQ 0 newly open, and keyboard_install adds vector 33 and IRQ 1. `RegisterBeforeUnmask`: no write opens a master line whose vector has no handler. `TypeOK` keeps every descriptor field, mask and local within its width. `TimerArmed` (liveness): the boot always reaches the panic loop, and from then on channel 0 counts at 1193, IRQ 0 is open at vector 32 and its handler is registered. Only EFLAGS.IF is missing for a tick. 396 states. |
| boot_no_ticks | MCInterrupts.cfg | violation | Module MCInterrupts under `Spec`. `TimerTicks` (`<>(TICKS > 0)`) fails even with the PIT and delivery fair. rust_main reaches the panic loop with IF clear. |
| boot_tests | MCBootTests.cfg | violation | `TestsPass` fails. memtest's three tests pass: each reads back what it stored through the new identity map, and test_free gets its frame back. pagetest maps and "unmaps" 0x400000. Then heaptest panics: after freeing ptr1, ptr3 and ptr4, `kmalloc(128)` returns ptr2, not ptr1, because kfree only merges forward. The heap keeps the real sizes (8 MiB at 8 MiB). The run is one path of 49 states, since the boot is deterministic. |

Each property of a passing run has a mutant in PROJECT.json: a plausible bug in the mapped code that TLC then reports. The mutants are:

- a first-fit loop that ignores the free flag;
- a split that forgets the payload, or computes the remainder backwards;
- a block left free when it is not split;
- a scan that skips the top bit of each word;
- a free that leaves the counter unchanged;
- an fs_add_child bound off by one, or one that forgets the parent link;
- a write that ignores the offset;
- a read that does not clamp to the end of the file;
- a shell buffer check that lets the line fill every slot, and a scroll that leaves the bottom row;
- a vmm_map without invlpg, without the `& 0x3FF` on the table index, or without the `& 0xFFFFF000` on the frame address;
- an fs_open that reuses a slot without resetting its offset;
- an init_timer that writes only the divisor's low byte, so the PIT never starts counting;
- a set_entry that stores access and granularity in each other's field;
- a pic_remap that does not restore the saved masks;
- a keyboard_install that unmasks IRQ 1 before registering its handler;
- a `value &= !(1 << mask)` written as a subtraction, which underflows on a line that is already open.

`init_timer_ops_HighFirst` (the divisor bytes swapped) is a further mutant of `init_timer_ops` that `PicRefinement` also catches.

## Bounds

- **FrameAlloc.** 8 frames in 2 words. This exercises the full-word skip, the second word, exhaustion, and frees in any order. Exhaustion occurs at depth 8.
- **Heap.** The 128-byte arena fits three small blocks with headers. So it reaches splits, unsplit takes (the remainder is below header + 16), merges and failures. The 8-bit usize makes the overflow paths reachable with the huge request only. The passing run keeps requests where the code has no overflow.
- **RamFS.** The sizes keep the code's ratios: a node is one 16-byte unit, a buffer larger than a node, and a 12-byte header. The arena sizes were chosen so that these cases happen:
  - a full file;
  - a file with a NULL buffer (one, or two in the OOM run);
  - a failed node allocation.

  Two byte values are enough to tell writes apart. Writes of 16 bytes fill a buffer in two steps. Reads of 16 bytes hit both the clamp and the end of the file.

- **Paging.** Four directory slots with two populated keep the code's situation: a populated slot, and one vmm_map does not check. A table fills one page, as in the code. The vmm_map calls cover:
  - every case of the store: the two slot kinds, two table entries, frame 0 (pagetest's unmap), an aligned frame, and a frame address with its low flag bits set;
  - both rw values.

  The accessed pages include both remapped pages and page 0.
- **Console.** A 3 × 2 screen and at most 12 characters and line breaks between clears (enough for the panic text). That allows two scrolls, a wrap followed by a line break (an empty row), a full shell buffer, and the help command with its output. The screen's size does not change the logic of putchar, new_line or scroll.
- **BootTests.** 16 frames of 32 bytes, and an identity map of 2 slots × 8 pages that covers exactly those frames. The code's 4 slots likewise cover memory.rs's 4096 frames. The directory and the tables are at pages 12 to 14, above the 10 frames memtest uses, as the kernel image is above the low frames. `NUM` keeps the code's 10. `TEST_PATTERN` is 0xBEEF, because TLC's integers stop at 2^31 and the tests only compare the pattern with itself. The model assumes a release build. memtest's first frame is frame 0, so its first `write_volatile` goes through a null pointer. A debug build's precondition check on `write_volatile` would panic there, before any test ran.
- **Interrupts.** The boot order is fixed, so the state space comes from the firmware's masks and the devices' interleaving with each port write. The three mask pairs cover a line already open before init_timer (SeaBIOS leaves IRQ 0, 1 and 2 open), lines that the unmask really opens (all masked), and the ICW1-cleared mask coinciding with the firmware's (all open). The tick width does not matter, because no tick occurs.

## Fairness

The passing runs check safety properties, and irq_setup also checks the liveness property `TimerArmed`. The allocator, the heap, the filesystem and the paging calls are synchronous calls, and nothing obliges a caller to make them.

Only `Interrupts` assumes fairness (`SetupSpec` keeps the first two, which `TimerArmed` needs):

- weak fairness of the boot steps, because rust_main runs straight through;
- weak fairness of the PIT firing, because once programmed it raises IRQ 0 every period;
- weak fairness of delivery, because spec §5 says that with IF = 1 the CPU takes a pending IRQ between instructions.

These are the strongest assumptions the hardware justifies. `TimerTicks` fails even under them.

## Not modelled yet (plan)

1. `fs_find_child` and node names: no code calls the lookup. Its prefix match is a known imprecision of the spec (§9).
2. **Terminal calls without callers.** `set_color`, `put_at` and `set_cursor` are not called anywhere in src/. `set_cursor` accepts any row and column. Because new_line and putchar compare with `==`, a row at or beyond the height would never scroll and would write past the framebuffer. No code reaches this. The race between a keyboard handler's echo and mainline output needs a delivered IRQ 1, and none is ever delivered.
3. **Frame allocator against the memory map.** allocate_frame starts at frame 0 and would hand out frames of the kernel image, the page tables and the heap arena. BootTests composes the allocator with paging and the heap, but only along the boot's own path. That path uses frames 0 to 9, which hold none of these. No code in src/ allocates further.

Left out for good:

- `inw`, which nothing calls;
- the PIT's counter itself: `PitFires` raises IRQ 0 whenever channel 0 counts, since the period does not matter while no tick is delivered;
- VGA and log formatting.

## Findings

Spec §8's "frame reuse" property ("after free(f), the next allocation returns f") contradicts the spec's own lowest-first scan (`memory.rs:72`). Freeing frames 0 and then 1 makes the next allocation return 0. `FrameRefinement` checks the lowest-first rule, so this needs no run of its own.

Spec §8's "heap coalesce" property (after freeing p2 and p1, `kmalloc(a + b + header)` returns p1) overlooks the 16-byte rounding of `heap.rs:30`. For a = 8 and b = 64, p1 and p2 merge into 92 bytes, but the request rounds to 96, so first-fit returns p3. `HeapRefinement` checks the heap against the rounding the code does.

editor::handle_key (`editor.rs:19`) says "just exit on Enter" but clears ACTIVE on any keyboard event, including a scancode with no ASCII such as a key release. So the first interrupt after editor::start ends the editor. `Console` models the code as written; nothing in src/ calls editor::start.

pic_remap restores the firmware's masks (`pic.rs:25`), as spec §4.4 asks. So a line the firmware left open (SeaBIOS leaves IRQ 0 to 2 open) stays open from pic_remap until init_timer registers vector 32, and IRQ 2 stays open with no handler at all. That is not the letter of spec §2's "IRQs may only be unmasked after their handler is registered"; `RegisterBeforeUnmask` checks that the code never opens a line early itself. With IF clear it is harmless.


- **code_bug: boot_tests.** `tests/heaptest.rs:36` expects ptr1 back, but `heap.rs:58` coalesces only forward. The kernel panics in `run_tests` at every boot.
- **spec_code_divergence: ramfs_open_any_node.** `fs_open` (`ramfs.rs:79`) does not check that the node is a file. TLC's trace opens NULL. Opening a directory such as ROOT goes through the same missing check.
- **code_bug: ramfs_oom_alias.** `fs_touch` (`ramfs.rs:72`) keeps a file whose buffer allocation failed.
- **code_bug: ramfs_write_overrun.** `fs_write` (`ramfs.rs:107`) does not check the write against the buffer.
- **code_bug: boot_no_ticks.** rust_main (`lib.rs:64`) never executes `sti`, and init_idt gives every gate selector 0 and offset 0. No interrupt is ever serviced, contrary to spec §1 and scenario 5.
- **code_bug: heap_huge_request.** `align16` (`heap.rs:23`) wraps without a check in a release build.
