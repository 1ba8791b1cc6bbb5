# twOS in TLA+

twOS is a 64-bit hobby kernel in C and assembly. It is loaded by a multiboot2
boot loader, moves to the higher half, builds its memory management from the
boot loader's memory map, sets up exceptions and interrupts, reads the ACPI
tables, and ends in a loop that sleeps on the HPET and draws a test pattern.
It runs on one processor and has no threads; what runs "at the same time" as
the kernel's main code are exception and interrupt handlers, the devices, and
the processor's own cache of translations.

This directory holds TLA+ modules for the parts of the kernel that carry state,
the TLC configurations that check them on small instances, and TLAPS proofs of
the most important properties for every value of the constants. Paths below are
relative to the repository; `kernel/` stands for `src/kernel/`.

## 1. Inventory

| Component | State | Operations | What makes it correct |
|---|---|---|---|
| Physical page allocator, `kernel/mem/physmem.c` | the bitmap `pmm`, `physmem.mm_end` | `physmem_init`, `phys_malloc`, `phys_free`, `set_phys` | available memory and nothing else is free after boot; a block is in RAM, above the low pages, marked, and nobody else's; a request fails only when there is no room; a free touches its own block |
| Kernel heap, `kernel/mem/kalloc.c`, `orderedarray.h` | top of the heap, headers and footers in the heap, the ordered array of blocks | `kalloc_init`, `kmalloc`, `kfree` | blocks tile the heap; payloads never meet each other or the metadata; one holder per block; the array lists every block; a free of what `kmalloc` returned succeeds |
| Virtual memory manager, `kernel/mem/virtmem.c` | the page tables, the blocks they are taken from, the processor's TLB | `virt_map_page`, `virt_unmap_page`, `virtmem_init` | a call changes the translation of its own page only; no stale translation outlives a call; every table has one place |
| Interrupts and exceptions, `kernel/isr/`, `kernel/asm/idt_table.asm`, `kernel/panic.c` | the IDT, the table of handlers, fault counters, the stack of interrupted code, IF | gates, stubs, `isr_handler`, `irq_handler`, `register_interupt_handler` | every delivered interrupt is ended once; handlers are not interrupted; a fault that cannot be repaired ends in a panic; signals are delivered |
| Local APIC, `kernel/apic/apic.c` | IRR and ISR of the APIC | `apic_init`, `lapic_sendEOI` | as above; the spurious vector reaches its handler |
| I/O APIC, `kernel/apic/ioapic.c` | the redirection table, `max_redir` | `ioapic_init`, `ioapic_mask`, `ioapic_unmask`, both for all | each IRQ interrupts under its vector, whatever overrides there are; the mask of its line follows what was asked for |
| 8259 PIC, `kernel/apic/pic.c` | masks, offsets, the control word a chip expects | `PIC_remap`, `PIC_disable` | set up away from the vectors of exceptions, and silent, when interrupts are enabled |
| HPET, `kernel/timer/hpet.c` | the one counter, calls of `usleep` that interrupt each other | `hpet_init`, `usleep` | no sleep is shorter than asked, and each ends |
| ACPI, `kernel/acpi/acpi.c` | tables found, arrays of MADT entries | `acpi_init`, `acpi_find_tbl`, the MADT walk | the walk ends; the arrays list the entries of their kind, all and in order |
| Boot sequence, `kernel/kernel.c`, `src/boot/multiboot.asm` | what was found in the boot loader's tags | `kmain`, `start` | each part is ready before it is used |
| Command line, `src/boot/cmdline.c` | keys and values | `cmdline_parse`, `cmdline_getarg`, `cmdline_hasarg` | what is looked up is what was written |
| Formatted printing, `src/kstdlib/print.c`, `string.c` | the place in the format and the arguments, two buffers | `vsnprintf` | what a format means is printed, cut at the buffer, and nothing is read behind the format |
| Log and serial port, `kernel/printk.c`, `kernel/driver/serial/serialdriver.c` | calls of `printk` that interrupt each other, the port's queue | `printk`, `serial_init`, `serial_write` | no character is lost, all of each message leaves the port, in order |
| Framebuffer, assertions, descriptors, `cpuid` | none that matters across calls | | |

How they interact. `kmain` walks the boot loader's tags; the memory map goes to
`physmem_init`. `virtmem_init` takes 64 pages from `phys_malloc` and maps the
framebuffer; from then on each driver maps its registers with `virt_map_page`,
which takes tables from blocks of one page each, allocated with `phys_malloc`.
The heap lies at the fixed physical address 0x30000000, is reached through the
kernel's own mapping, and asks the physical allocator for nothing. ACPI and the
drivers take their arrays from `kmalloc`. Drivers register handlers with
`register_interupt_handler`; the stubs call `isr_handler` or `irq_handler`,
which call them and write the end of interrupt. Everything
logs with `printk`, handlers included, and a handler may call `usleep`: both are
entered again while a call that was interrupted has not returned. `phys_free` and
`virt_unmap_page` have no caller yet; they are part of the interface and are
modelled as such, separately from what the kernel does today.

Hard to test here: the bit arithmetic of the bitmap at the borders of its words
and of the memory map; sequences of allocations and frees; the byte-wise
overlap of a reused block with its header; a processor that caches translations
at any instruction; interrupts and exceptions that meet at any instruction;
one counter and one port for calls that interrupt each other; tables of the
firmware and strings of the boot loader that are longer than the arrays for them;
limits (last word of the bitmap, last bytes of the heap, last table of a block,
fault counters). `PROJECT.json` lists each hazard at its line.

## 2. Modules

| Module | Models |
|---|---|
| `PhysMem` | the physical page allocator |
| `PageAllocator` | what an allocator of pages promises (abstract) |
| `PhysMemLoops` | the loops of `physmem_init` and `phys_malloc`, bit by bit, to compare with `PhysMem` |
| `PhysMemProofs` | theorems about `PhysMem` |
| `Heap` | the kernel heap and its ordered array |
| `HeapProofs` | theorems about `Heap` |
| `PageTables` | the page tables, their allocation, the TLB |
| `AddressSpace` | what page tables promise: a map, changed one page at a time (abstract) |
| `PageTablesProofs` | theorems about `PageTables` |
| `Interrupts` | gates, stubs, handlers, the local APIC, faults |
| `InterruptsProofs` | theorems about `Interrupts` |
| `KernelMemory` | `kmain`: composes `PhysMem` and `PageTables` with the drivers' mappings |
| `KernelMemoryProofs` | theorems about `KernelMemory`, from those about its two components |
| `NatLemmas` | facts about numbers that several proofs use |
| `Cmdline` | the command line: parser, arrays, look-up |
| `Madt` | the walk of the MADT and its seven arrays |
| `Pic` | the two 8259s and their set-up |
| `IoApic` | the redirection table and its driver |
| `Hpet` | `usleep` and the counter |
| `Startup` | `kmain` and its main loop without memory: composes the five above |
| `StartupProofs` | theorems about `Hpet` and `Startup`: the timer, the MADT, the redirection table, the 8259s, the command line |
| `Printf` | `vsnprintf` and the string functions it calls |
| `Serial` | the serial port and its driver |
| `Log` | `printk` in the main code and in handlers: composes `Printf` and `Serial` |
| `LogProofs` | theorems about `Log`: the port, and what `vsnprintf` makes of a message |
| `MCPhysMem`, `MCHeap`, `MCPageTables`, `MCKernelMemory`, `MCStartup`, `MCLog` | the small instances |

A definition with an underscore and a word after the source's name, such as
`kmalloc_new_NoFooter`, is a plausible mistake in that code. No specification
uses it; it documents which mistake a property would notice.

### PhysMem

A page is its number; the bitmap is the set of pages whose bit is set. Four
facts about the C code decide the model.

* `set_phys` computes `1 << bit` in `int`. The mask therefore has the bit
  `bit % 32`, and for bits 31 and 63 its sign is extended over the upper half of
  the word. `MaskPages(p)` is the set of pages whose bits the mask of page `p`
  has. Shifting an `int` by 32 or more is undefined in C; the model takes what
  the x86 shift, which the build uses for a variable count, does.
* `memset` with `PHYS_USED`, which is 1, sets one bit of each byte; the words
  below `mm_end` are then filled entirely (`InitialBits`).
* `physmem_init` writes bits region by region in the order of the map. The last
  write that reaches a bit decides it (`LastWrite`), and the low pages are set
  at the end. The start of a region is rounded *up*, as its end is.
* `phys_malloc` marks pages in whole 64-bit words but with a mask of its own,
  and skips a full word with `continue`, without resetting the count of free
  pages: a run is a set of *scanned* pages that are all free, so it may go on
  behind a full word (`IsRun`), while the pages from its start on, `n` of them
  in a row, are handed out and marked.

`physmem_init` halts if `mm_end` is 0: its debug line calls `get_phys`, which
divides by `mm_end`. Address 0 is what `phys_malloc` returns on
failure, so a caller that gets page 0 holds nothing.

`PhysMem` uses these closed forms so that it can be reasoned about. `PhysMemLoops` has
the loops of the code, round by round, as recursive functions over words and bits, and
over regions and pages; the run `phys` compares the two, and `PhysMemProofs` proves
them equal.

### Heap

A block is named by the address of its header; `blocks` gives the place of its
footer, its `block_size` and `available`, `heap_addr` is `heap.addr`, `allocs`
the ordered array. Addresses are numbers and sizes keep the real sizes of the
packed structures: header 13 bytes, footer 12, a pointer 8. A client holds what
`kmalloc` returned until it frees it, and may write all of its bytes at any
time (`write`).

* `kmalloc_new` returns the byte behind the header. `kmalloc_reuse`, of a block
  that was freed, returns `header + sizeof(header)`, where `header` is a
  pointer: 8 bytes, five too few. What such a client writes are also the upper
  five bytes of `block_size`; `write` adds nothing or `Garbage` to it.
* `kfree` looks for the header 13 bytes before its pointer and asserts both
  magic numbers; if there is no header and footer there, the kernel stops
  (`status = "bad free"`).
* `oarray_insert` compares through a pointer to a function of the wrong type:
  `alloc_greater` returns a `uint8_t` and the caller reads a pointer-sized
  value, whose upper bytes are undefined. "Greater" is thus always seen, "not
  greater" is seen or not: `InsertPositions` is the set of positions possible.

### PageTables

A table is a function from indexes to words; a word is zero, a link to a table,
a page, or one of the three words at the end of a block. The block is modelled
with its metadata at the place where it is in memory: `idx`, `prev` and `next`
are the first entries of the table-sized rest `<<block, Dirs>>`. This matters,
because `new_page_table` increments `idx` twice at each call: once in the
argument of `debugf`, which is never compiled out, and once in its return. With
511 tables to a block, `idx` goes 0, 2, ..., 510, and the table taken at 510 is
511, which *is* the metadata. `take_table`, `AsIdx` and `Wild` follow that
through, including what the next call then reads as an index.

`set_entry` is a call of `virt_map_page` up to its last write, `flush_tlb` the
rest of it; `cache` is the processor, which may keep the translation of any
mapped page at any time, also in between. `virt_unmap_page` is `virt_map_page`
with frame 0 and no flags, as in the code, tables made on the way included.
Only entries written by this code exist, so a walk goes through tables; one that
finds a page or a number where it wants a table is `Wild` and ends the run.
The kernel's own translations, from the boot code, are `KernelPages`; callers
map pages outside of its entry of the top level.

The boot code ran through an identity map of the first 16 pages (`IdPages`). At its end it
clears the entry of the top level, but invalidates only page 0, and the reload of `cr3`
that would do the rest is commented out (`multiboot.asm:201-207`). The processor may
therefore start with any translations of that map but page 0's (`StaleTlbs`), and
`TlbFollowsTables` lets it keep them until the first call, whose flush ends them.

### Interrupts

`stack` has one context for the main code and one for each stub that has not
returned; a context remembers its vector, whether the local APIC delivered it,
the flag its `iretq` restores, and the exception its code is about to raise.
`Gates` is 0 to 47, as `idt_init` sets them: entering through any other vector is
a general protection fault. All gates are interrupt gates, so entering clears
IF. The exception stub executes `sti` before its `iretq`, which takes effect only
after the instruction that follows it, and that restores the flag (`return_stub`).

`isr_handler` chooses between `handle_pagefault`, `handle_gpf` and
`handle_error_generic`, with their counters: a page fault panics after four, a
general protection fault at the second, another exception when it is the same as
the last, or an invalid opcode. Handlers repair nothing, so a fault is retried.
`irq_handler` writes the end of interrupt after every vector from 32 to 47, with
a handler or not, also for `int 47` of `kmain`, which no APIC delivered.

External: the local APIC (`signal`, `deliver`, `deliver_spurious`) delivers one
device's vector at a time, because vectors 32 to 47 are of one priority class
for all that are in service here; the processor meets an exception (`meet`) in
the main code or in a device's handler.

### KernelMemory

The boot sequence. `machine` is what the boot loader and the firmware hand over:
the memory map, the tags, the framebuffer, the ACPI tables and the addresses of
the devices. The tags come in any order (`read_tag`). Then `kmain` is a sequence
of steps: an init function is the steps of it that concern memory, in the order
of the code. `malloc` and `map` are actions of `PhysMem` and `PageTables` in one
step where `virt_map_page` needs a new block, which is a page of `PhysMem`; `use`
is an access, a page fault if the tables do not lead to the page; `must` is an
assertion or a test that ends in a panic; `heap` is a use of the heap: `kalloc_init` with
the `kmalloc` and `kfree` that `kmain` tries, the arrays of `acpi_init`, and the drivers'
reads of them. What these do inside the heap is the module `Heap`, which has them in
memory of its own: the first block is new, so its free passes the assertions of `kfree`.
Here a use of the heap may stop the kernel, by an assertion or a page fault, unless there is
memory where the heap is and no block of tables is in it (`HeapIsIntact`). Where it is not
intact, the kernel may also go on: what becomes of tables or other contents that the heap
is written over is not followed further. A block of tables whose page lies
behind the 1 GiB of the kernel's mapping cannot be cleared: a page fault.

`Roomy` and `Usual` name what the kernel silently counts on: a memory map whose regions
come in order and do not overlap, with available memory behind the low pages for the
scratch block and a block of tables, up to the end of the word of `pmm` in which they
end; a framebuffer that starts at a page; ACPI tables in the page of the root table;
HPET registers in a page that an APIC's registers made the kernel map; a root pointer of
revision 2; an I/O APIC outside the second GiB. `HeapInMemory` is one more: that the
machine has memory at the heap's fixed address, from 0x30000000 on. Each of these
conditions is needed:
without any one of them `BootCompletes` or `OneUse` is violated on the instance. The end
of the word is one that the proof of `PagesHaveOneUse` brought out: a reserved page
behind the block marks others of its word (finding 2), which moves the block, or leaves
no place for it.

### Startup, with Cmdline, Madt, Pic, IoApic and Hpet

The same path through `kmain` as `KernelMemory`, for what is not memory. `machine`
says what the boot loader and the firmware hand over: the words of the command
line, the entries of the MADT, how many lines the I/O APIC has, whether there is
a HPET, whether the firmware left interrupts masked, and what drivers will do.
`stage` follows `kmain`; "astray" is a write behind an array or a read of memory
that was never written, after which nothing is claimed.

* `Cmdline` goes through the string character by character as the code does. The quirk
  that matters is in `Behind`: when a value has been read, the character behind the space
  is put into the key that follows without a look at it (`cmdline.c:47`). A key is stored
  without its Nul when it fills its row; `cmdline_hasarg` then reads on into the next row
  (`Row`).
* `Madt` sorts positions of entries into arrays of `Room`. An entry of length 0 is one the
  walk does not leave: of an unknown type it is endless, of a known one it fills the
  array.
* `Pic` is the protocol of the chips: after the first control word a chip takes the next
  three bytes as control words, and any other byte as its mask. `PicQuiet` asks for both
  masks full, each chip at vectors of its own, and no control word outstanding.
* `IoApic` keeps of an entry its vector and its mask: `map_redtbl_entry` keeps the delivery
  and destination modes that the firmware left (`ioapic.c:94`), and nothing is said of
  them. Registers are numbers of 8 bits, so
  an entry number above the table reaches no register; `max_redir` is the *number* of
  entries and the last index the loop uses. `wanted` and `loose` are not part of the
  code: `wanted` has the IRQs whose last request, one for all IRQs included, was to unmask
  them. Two faults of the driver decide what `MaskFollowsRequests` can say.
  `ioapic_mask_all` and `ioapic_unmask_all` pass 32 to 47, vectors, where IRQs are expected
  (`ioapic.c:54`, `ioapic.c:59`): as a rule they change nothing at all. An IRQ that such a
  call was to change is `loose`, and nothing is said of it, until a request names it. And
  `ioapic_mask` and `ioapic_unmask` do not look for an override of IRQ 0 (`ioapic.c:65`):
  with the usual override of IRQ 0 to line 2, a driver that unmasks IRQ 0 unmasks line 0,
  and the timer's line stays masked. The property is therefore about drivers that ask only
  for IRQs that have a line, and not for IRQ 0 (`NamesLines`); with IRQ 0 among their
  requests it is violated on the instance. What is left, and is shown, is that a request
  for any other IRQ reaches its line, moved by an override or not, that none reaches the
  line of another IRQ, and that a call for all, with the lines it does reach, changes no
  mask against its purpose.
* `Hpet` has one counter and a stack of calls. A call resets the counter, starts it, and
  polls; a handler may come between any two of these and sleep itself. `ticks` counts how
  long a call has lasted and is not part of the code: it says what "long enough" means.
  Both products that are compared are `uint64_t` and wrap.

Drivers are external, as there are none yet: the main loop and the handlers mask,
unmask and sleep as they like. A handler is not interrupted (`Interrupts` shows
that), so there are at most two calls of `usleep` at a time.

### Log, with Printf and Serial

`Printf` is `vsnprintf`: a call is a record, and `vprintf_step` one round of the
loop. What a conversion prints (`Conversion`, `LongConversion`) comes with the
number of characters the code takes it to have, which it computes apart from the
ones it skipped: `%2d` prints the number and goes on at `d`, `%f` goes on two
characters too far, and a percent sign with nothing but digits and signs behind it
is searched for its letter behind the end of the format. `past` says whether the
Nul was written one byte behind the caller's buffer, which `strncat` does when the
text fills it.

`Log` has a stack of calls of `printk`: each step of the one on top may be
interrupted by a handler that logs. Writing a character is two steps, the look at
the status (`wait`) and the write, so that a handler may come in between. The port
sends when it likes (`send`). A message carries what it should print, so that the
property compares the code with a meaning and not with itself. `Directive` and `Part` say
what a conversion and a part of a message are, by the letters and not by the code: `i` and
`d` are signed, `u` and `x` unsigned, an `l` makes a long of it, `x` has a prefix, and `lX`
has none, as the comment at `print.c:186` says. The code shows every int as signed and
every long as unsigned. Where that differs from the letters, for `u` and `x` from 2^31 on
and for `l`, `li` and `ld` of negative longs, `Directive` gives no meaning, and such
formats are among the odd ones, which must only not break what else is said. `lx` is
finding 5. Only the layout of binary numbers, for which there is no convention, is taken
from the code. In `MCLog` the texts of all items are written out by hand, and TLC evaluates
`ItemsAreParts`, that these texts are what the directives show and that the plain messages
are composed of parts.

`EveryLineSent` says that the characters of each message leave the port, all of them, in
order, and with the end of the line. It does not say that they leave as one line on the
wire: the text of a handler that logs in between stands in the middle of it.

## 3. Runs

`tlc -config <cfg> <module>`; names as in `PROJECT.json`.

| Run | Checks | Shows |
|---|---|---|
| `phys` | `TypeOK`, `LowMemoryKept`, `HeldInRam`, `Exclusive`, `IsAllocator`, `BootExact`, `SearchAgrees`, `BootAgrees`, `MallocComplete`, `GrantsFreeOrSkipped`, `FreeConfined` | from every bitmap of three words, with requests of any size and frees, and every map of regions with borders at any byte: the closed forms of `PhysMem` are the loops of the code; a search fails only where there is no room; what is handed out was free, unless the search skipped its word as full; a free stays in the words of its block. From maps whose borders are at pages or words, with three clients that ask for single pages, as `alloc_pt_block` does, in any order: the bitmap implements `PageAllocator`, the low pages and what lies behind RAM are never given away, and boot frees exactly the available pages of maps whose borders are at words |
| `phys_joined` | `Exclusive` fails | finding 1 |
| `phys_mask` | `ReservedNotFree` fails | finding 2 |
| `heap_safe` | `TypeOK`, `BlocksTile`, `PayloadsApart`, `FreeSizesIntact`, `OneHolder`, `ArrayListsBlocks`, `NoInternalFailure` | three clients allocate, write and free in any order until the heap is full or a free stops the kernel |
| `heap_free` | `FreeSucceeds` fails | finding 3 |
| `pt_map` | `TlbFollowsTables`, `TablesOwned`, `OneBlockSuffices`, `IsAddressSpace` | pages are mapped and unmapped in any order while the processor caches translations at any moment; the tables implement `AddressSpace` |
| `int_all` | `ServiceHasItsHandler`, `HandlersUninterrupted`, `FaultsEnd`, `SignalsDelivered` | devices, `int 47`, traps and faults meet in any order, in the main code and in handlers |
| `int_spurious` | `SpuriousIsNoFault` fails | finding 4 |
| `boot` | `OneUse`, `DriversStayMapped`, `BootCompletes` | on a machine that is `Roomy` and `Usual` and has memory for the heap, `kmain` reaches its main loop; no page has two uses, tables are where the kernel reaches them, and everything the loop uses is still mapped; the newer root pointer wins in any order of tags |
| `startup` | `ArgsFound`, `MadtComplete`, `PicQuiet`, `RoutesToVector`, `MaskFollowsRequests`, `SleptLongEnough`, `BootEnds`, `SleepEnds` | command lines that fit and that overflow, MADTs with any entries, overrides to free, taken, swapped and missing lines, and devices that interrupt the sleeping main loop: arguments and entries are found as written, every line has its IRQ's vector and, for drivers that are `NamesLines`, the mask that was asked for last, but for IRQs that a call for all IRQs missed; both 8259s are silent; no sleep is too short, and walks and sleeps end |
| `log` | `FormatsRight`, `NothingLost`, `EveryLineSent` | messages with each conversion beside another, odd formats, and texts around the size of the buffer, while handlers log at every step: plain formats are printed as meant and are never read behind their end, the port never meets a character it has no room for, and all of every line leaves it, in order |
| `log_hex` | `LongHexPrefixed` fails | finding 5 |

A type invariant, `TypeOK`, is checked where proofs start from it, for the two allocators;
elsewhere a value of a wrong type would break the properties that are checked.

### Bounds

* Words of 4 bits, an `int` of 2, a byte of 2, three words to the bitmap, pages of 2
  bytes. The ratios that matter are kept: a word is two `int`s (so the mask wraps once and
  the sign bit has something to extend over), a word has several bytes, memory may end
  inside a word, and there is a first, a middle and a last word, so a full word can lie
  between two that are not. Three clients with requests of up to three pages fill a word
  and leave pages on both sides of it. `phys` (`MCSpec`) starts from every memory map, or
  from every bitmap with the low page marked. Whatever other clients did before is one of
  these bitmaps, so from them one client at a time asks, for up to three pages, and frees;
  its frees are of blocks behind the first word, since a free inside the first word may
  free the low page (`physmem.c:147`). From the maps with borders at pages or words, with
  and without a hole, three clients ask for single pages. The proofs do not depend on these
  numbers.
* The heap has its real header, footer and pointer sizes, a room of 124 bytes and an array
  of four elements; sizes 0, 3 and 11 make blocks of 25, 28 and 36 bytes. A reused block
  has three bytes more or less than asked for, a pointer eight bytes behind the header
  overlaps `block_size`, and the heap is full before or just when the array is. `Garbage`
  is larger than the heap: a value with a bit set above the third byte is larger than any
  block.
* Tables of 3 entries and 11 tables to a block. `Dirs` is odd as 511 is. The four pages
  share a table, then only a first-level table, then neither, and need five tables;
  `FewTables` says that these are fewer than the tables in front of the metadata. With the
  real numbers, the framebuffer, the ACPI table, the APICs and the HPET need at most a
  dozen of 255. One cached translation is enough to be stale. Two pages of identity map leave one
  translation of it that may be stale at the start.
* `KernelMemory`: 9 pages behind the kernel's address, a bitmap of 16 pages in words of 4,
  one low page, a scratch block of four, which crosses the border of a word, the heap at
  page 8, the ACPI tables in pages 11 and 12, the framebuffer from page 20 on and
  registers at page 10 or from 28 on. The maps put a reserved or missing region anywhere
  between the low pages and beyond the kernel's mapping, and one is not in order; TLC also
  evaluates `TablesAreEnough`, the hypothesis of the theorems about this module, on the
  instance. The devices vary over: a framebuffer that is aligned, not aligned, too large;
  tables in one page or two; registers of the HPET with the I/O APIC's, with the local
  APIC's, or alone; all subsets of the tags.
* `Startup`: two rows for the arguments, keys of up to 6 characters in rows of 4, values
  of up to 6 characters in a buffer of 6, up to three arguments, numbers of 4 bits with
  two digits: each limit of `cmdline.c` is met just below, at, and behind. Room for two
  pointers in an array of the MADT, which has up to three entries in front of the
  overrides. The I/O APIC has 16, 24 or 48 lines: as many as there are IRQs, the usual
  number, and as many as make the vectors 32 to 47 lines. The counter and the products
  that `usleep` computes wrap at 16; a tick is 3 and a microsecond 4 of the same unit of
  time, so that they do not divide; delays are 1 and 3 microseconds, and 12 units are the
  longest that fits. `MaxFires` bounds the interrupts during one sleep of the main loop:
  without a bound, handlers that sleep could keep the main loop from ever waking.
* `Log`: a buffer of 12 characters, which the longer messages fill and overflow, an `int`
  of 8 bits and a `long` of 9, so that the two differ and numbers may be negative (`log_hex`
  needs one call only). Three
  calls interrupt each other over a queue of three characters, the smallest for which the
  port has room; the real one has 16. The first call logs any of about 60 messages, the
  others a short one: what a call formats does not depend on the others.
* Two device vectors, the lowest and the one that `int 47` uses; a trap, a fault that is
  generic, one that is never recoverable, and the two that are counted. `MaxSignals`
  bounds how many interrupts, traps and faults there are in all.

`CHECK_DEADLOCK FALSE` is set where the system stops for good: a panic, a heap
that stopped, memory that ran out, or the bound on signals.

### Fairness

`KernelMemory` assumes that the kernel goes on as long as it has a step to take: one
processor, interrupts off. In `Interrupts`, `Fairness` says that the processor goes on
(a context that met an exception raises it, handlers return) and that the local APIC
delivers a vector it may deliver continuously. The first is what a processor does; that
handlers return is true of this code because none of them waits for anything but the
serial transmitter. Nothing is assumed about when devices signal, when the main code
enables interrupts or registers a handler, or whether instructions fault. `FaultsEnd`
needs the counters: with the counter of a handler removed, the fault is retried for
ever. Between two retries of one fault, other exceptions may come, and with another
generic one in between `last_num` is not the same; the property holds since those end.

`Startup` assumes that `kmain` goes on (WF), that the counter counts while it is
enabled (WF), and, strongly, that the code that polls sees the counter while it is
at its target and that handlers return: the counter may pass the target and wrap
between two polls, again and again, and polls are much more frequent than wraps of 64
bits. (The counter is taken to be one of 64 bits; the code does not look at the bit that
says so.) `Log` assumes that the processor runs and that the port sends, both weakly.
Nothing is assumed about when devices interrupt or handlers log, only that they do
so a bounded number of times, which `MaxFires` and `MaxCalls` say.

## 4. Proofs

The following is proved for every value of the constants that satisfies the
assumptions of the modules, that is for the real bitmap of 512 words of 64 bits, the
real heap, tables of 512 entries, a counter of 64 bits with any tick, and any messages.

**Physical allocator.** The inductive invariant is `TypeOK`, `HeldMarked`,
`LowMemoryKept` and `SearchEndsInRam`. The last one is the strengthening: after
boot `mm_end` whole words do not reach past the end of available memory, and
every page of a held block lies below them. It is needed because `pmm` alone does
not say where RAM ends: bits above the end may be free, since the sign-extended
mask of bit 31 clears the bits up to 63. The lemma `GrantedRun` is the heart: a run
that the search returns has `n` scanned free pages from `s` to `e`, so `n` is at
most `e - s + 1`, and each of the `n` pages marked from `s` on is scanned, thus
free, or is in a word that was skipped. From it follow `TypeCorrect`,
`AllocatedStaysMarked`, `LowMemoryIsKept`, `BlocksInRam` and
`GrantsAreFreeOrSkipped` for all requests. Under the assumption `SinglePage`,
that no request is larger than a page, a run is one free page;
`SinglePagesAreExclusive` and the refinement `ImplementsAllocator` follow. The
assumption is needed: without it finding 1 refutes both.

That `phys_malloc` misses no room is `FreeRunsAreFound`: free pages are in no full word,
so all of them are scanned and their run is one the search may return. Finding 1 makes
it give away too much and never too little. `FreeStaysInItsWords` says that the bits
`phys_free` clears lie in words of its block, whatever the masks are.
`BootFreesAvailable` is about `physmem_init` as a whole: for a map in the order of its
addresses whose borders are at words, what a write to a page changes, up to half a word
beside it, lies in that page's own region, so the last write to a bit is one of its
region (`WordInRegion`, `LastWriteIs`); the low pages are written last, and end before
the sign bit of an `int`. Both theorems about the search and the free hold with
`phys_free` among the steps (`SpecWithFree`).

**The loops.** `SearchIsAsCoded` and `BootIsAsCoded` state that the closed forms of
`PhysMem`, on which all of the above rests, are what the loops of `phys_malloc` and
`physmem_init` compute, for every bitmap, request and map. Both count the rounds of a
loop up to a first one that would break what is said of the rounds before it
(`AllRounds` in `NatLemmas`). For the search this is `Counting`: the count is the number
of pages scanned since the place that is remembered, all of them free, every start before
that place is cut off from here by a page in use, and no run has ended yet. For boot it is
`SetBits`: after a row of pages is written, a bit is what the highest page whose mask has
it wrote, or else what it was before; over the regions of the map that is the last write
(`LastWriteIsGreatest`).

**Heap.** The inductive invariant adds to the invariants of the run two facts.
`HolderInBlock` says where a client's bytes are: in a block that is not
available, from 8 or 13 bytes behind its header to at most its footer. It is what
makes a write harmless to anything but the block's own `block_size`, and gives
`PayloadsStayApart` together with `BlocksTile`. `ArrayPaidFor` says that each
element of the array stands for at least 25 bytes below `heap.addr`: with the
constant's assumption that the heap has no room for more than `MaxElements` blocks
of 25 bytes, the array is never full before the heap (`InternalFailuresUnreachable`).
`FreeSizesIntact` carries the argument over a reuse: a client that may have
spoilt `block_size` holds a pointer that `kfree` refuses, so the block never
becomes available again. The search therefore never trusts a spoilt size.

**Timer.** `SleptLongEnough` is about a call that returned, so it is not inductive.
The invariant `HpetInv` adds that the counter is never ahead of a call that has not
lasted long enough: each call reset it when it began, resets by calls that came
later only set it back, and a wrap takes it to zero. So when a poll finds the product at
its target, the ticks since the call began are at least as many (`PollInTime`). The
assumption `DelaysFit`, that the delay in femtoseconds and a tick fit 64 bits, is needed:
otherwise the target wraps to a smaller one. `HpetSleepsLongEnough` is about the timer
with callers of any kind and depth; `StartupUsesHpet` shows that every step of `Startup`
is a step of that specification or leaves the timer alone, which gives
`SleepsLongEnough`.

**Log.** `PortHasRoom`: the port has room for every character although a call may be
interrupted between its look at the status and its write. The invariant `RoomInv` counts:
the calls that looked and have not written, and the characters in the queue, are
together at most `MaxNest`. A call that sees an empty queue adds itself, and only calls
on the stack can be waiting then (`WaitRoom`); a write turns a waiting call into a
character (`WriteRoom`). With the assumption that the queue is as long as calls can
interrupt each other, it is never full at a write. The text of a message, its format and
what left the port play no part.

`FormatsAreRight` is about messages that are `Composed` of parts, each a character or a
conversion with its letters. `RightSoFar` is its invariant: after each round of the loop
the call stands at the beginning of a part, the argument it takes next is that part's,
what the parts before it mean is `out`, cut to the size of the buffer, followed by `buf`,
and `buf` is shorter than the format is read. That a text which was cut may go on, and be
cut again, without a difference is `CutTwice`. `ReadsChar` and `ReadsConversion` are the
two kinds of rounds and `GoesOn` the end of each, where the format may end and `buf` be
flushed. `CallsRight` says the same of every call on the stack, however many there are.
The hypothesis, `MessagesComposed`, is the promise of the callers; TLC evaluates it for the
messages of the instance. What a part means is `Directive`, by its letters; for numbers
whose sign the code gets wrong it has no meaning, so that the theorem is not about messages
with them, nor about `%lx`. Meanings are written with `Numeral`, the division loop of `itoa`
and `ltoa`, and that its digits are right is `NumeralsAreRight`: evaluated in their base
they give the number again, and none has a leading zero. `NumeralsExist` shows,
by the least number for which it fails, that the recursion defines a function, and
`DigitMore` is one round. The layout of binary numbers, which `Directive` takes from the
code, is checked by the run, against texts written by hand, and not proved.

**Page tables.** The inductive invariant `TablesInv` has `Sound`, about any memory and
current block: the boot code's tables are as they were, every link leads one level down,
no table hangs twice, the links are those of prefixes of pages that were asked for
(`Prefixes`), and the tables from `idx` on are empty. `idx` is twice the number of
prefixes, so `FewTables` keeps it before the metadata, where a table would be
`idx`, `prev` and `next` at once: that is what `FirstBlockSuffices` needs and what makes
the hypothesis necessary. `Reach` of a call is three times the same step, make a table
or go through one, and each keeps `Sound` (`NextLevel`, used for each level).
`TablesAreOwned` is part of the invariant. A write to the last level then changes the
translation of its own page only (`CallMaps`), which is the step of
`ImplementsAddressSpace`, and `CacheFollowsTables` says that what the processor kept
during a call can be stale for the page of the call only, which `flush_tlb` removes; until
then nothing but translations of `IdentityMap` is left from before the first call. The
theorems assume `Enough`: the tables that the pages need are fewer than the places before
the metadata, and there is a block to allocate.

**Interrupts.** `StubsInv` adds three facts to the two properties: the main code is at
the bottom of the stack, a device's stub can only be directly above it, and the saved
flag of anything higher is clear. That interrupts are off keeps a device's vector from
being delivered above another stub (`NoHandlerIsInterrupted`, although the stub of an
exception executes `sti`: the instruction behind it restores the flag before anything
can come in); and as only one device's stub is ever on the stack, the last vector in
service is the one that `irq_handler` ends (`EveryInterruptIsEnded`). The bound on signals
plays no part.

**Kernel memory.** The theorems rest on those about the components: `PM` and `PT` are
instances of `PhysMemProofs` and `PageTablesProofs`, their assumptions follow from those
of `KernelMemory` (`ComponentsAssumption`), and `UsesItsComponents` shows that each step
of `kmain` is one of `PhysMem` and of `PageTables` or leaves them alone. So `PM!IInv`
and `PT!TablesInv` are invariants here. `BootInv` adds `Covered`: in each state, what
the steps behind the current one use is mapped by a step before it or already mapped.
Since devices are mapped where they are, a later mapping of the same page changes
nothing, and `MappingsLast` follows for all devices at any addresses. `PagesHaveOneUse`
needs to know *where* the blocks are. `Placed` says it: on a machine that is `Roomy`,
the search of `phys_malloc` finds the pages right behind the low ones free, so the
scratch block starts there, the only block of tables comes right behind it, and both end
in front of the heap and inside the kernel's mapping (`FirstGrant`). No other block of
tables is ever needed, by `FirstBlockSuffices`. The hypothesis is `PT!Enough` for all
pages that some machine in `Machines` maps; as `Machines` may be a set of one, it asks
of each real machine that its framebuffer, tables and registers need fewer than 255
tables.

`BootMeetsNoFailure` is the safety half of `BootCompletes`: on a machine that is `Roomy`
and `Usual` and has memory for the heap, `kmain` meets no assertion that fails, no panic and no page fault. A list of
steps `Fits` what is known to be mapped when each `must` in it holds and each `use` is of
pages mapped before it, by the steps in front of it or already; `Smooth` says that the
steps which are left fit. The steps of the heap go on since `HeapInMemory` is
assumed and, by `Placed`, no block of tables is in the heap (`HeapIsIntact`). A list is judged when an init function adds it (`Goes`, put
together from the lists of its calls by `GoesThen`), and each step that is taken leaves
the rest fitting. That a block of tables can be cleared where it was allocated is `Placed`.
What is left to TLC of `BootCompletes` is that the kernel goes on.

**MADT.** `WalkInv` says that while the walk goes on the arrays list, in order, exactly the
entries before the current one (`Listed`), or the entry has no length, and then the
walk never ends as "done". Positions only grow, so an array keeps its order.
`MadtIsRead` holds for any MADT and any `Room`.

**Command line.** `ArgumentsAreFound` holds for every `Tidy` command line: as many words
as there are rows, keys that fit a row with their Nul and have no `=`, and behind each key a
value of digits that fits the buffer and is below `NO_ARG`. `Layout` says where each word of
the text is. `CmdInv` says that the parser has stored the words before the current one
(`Filled`) and that `buf` holds the characters it has read of the current key, also the
first, which it takes without a look (`Reading`). From it follow what `ValueEnd` and
`Behind` find (`ValueIs`), that `atou` reads a value as its number without wrapping, that
the look-up finds the first row of a key and no other, and with that what `read_args` sets
(`DbgRead`).

**Redirection table.** `TableInv` adds to `WalkInv` that, for overrides that are
distinct and name lines that exist (`Plain`), there is an entry for each line and the
driver knows their number. The table after `ioapic_init` is computed line by line
(`TableMapped`): an override decides its line, `irq_map` the lines without one. The loop
over the overrides is a recursive function; `LoopExists` gives it the values of its
definition, and its rounds are counted up to a first one that would break what
`OverridesMapped` says of it. `LinesKeepTheirVector` needs no more. `MasksAreObeyed`
needs that each call of a driver changes the line of its own IRQ and no other's
(`RequestSets`), which `NamesLines` makes so, and that a call for all IRQs changes masks in its
own direction only (`AllSet`), so that the line of an IRQ which has this mask already keeps
it; the other IRQs are `loose` after the call.

**8259s.** `PicsInv` says that from `apic_init` on both chips are set up and masked.
The lemmas `ByteWritten` and `BothStep` say which control word or mask a byte is, by what
was written before; `BothQuiet` follows the bytes of `PIC_remap` and `PIC_disable` in the
order of the code, from any mask that the firmware left. The two calls with 32 and 33 where
lines are expected change the mask of the second chip only, and the last call undoes
that.

Only model-checked, and why:

* all liveness: `FaultsEnd`, `SignalsDelivered`, `BootCompletes`, `BootEnds`, `SleepEnds`,
  `EveryLineSent`. The prover has no rules for fairness and ENABLED. The safety half of
  `BootCompletes` is `BootMeetsNoFailure`.
* the digits that the binary conversions print, and what left the port, whole and in order:
  both are about what a function or an action has accumulated over strings of any length.

The assumptions the proofs rest on are those of the modules, which TLC evaluates in each
run, and the hypotheses named above: `SinglePage`, `Enough` for `PageTables` and for its
instance in `KernelMemory`, `Roomy` and `Usual`, `HeapInMemory`, `DelaysFit`, `Plain` and
`NamesLines`, `Tidy`, and `MessagesComposed`.
`CmdlineAssumption` says that what a machine's command line consists of are characters,
that the longest key fits the parser's buffer, and that the level of the debug output is
narrower than a number of the line; `KernelMemoryAssumption` that the heap has a page.

## 5. Findings

1. `phys_joined`: `physmem.c:114` skips a full word without resetting the count of
   free pages. Three single pages are enough to fill the word between two free
   ones; a request of several pages is then answered with pages in use.
2. `phys_mask`: `physmem.c:34` computes the mask in `int`. Bits 32 to 62 change the
   bit 32 below, bits 31 and 63 change the upper half. A reserved region in the
   upper half of a word is left free, or an available one in use.
3. `heap_free`: `kalloc.c:169` adds the size of a pointer instead of that of a header.
   Allocating, freeing, allocating again and freeing stops the kernel.
4. `int_spurious`: vector 255 has a handler (`apic.c:61`) but no gate.
5. `log_hex`: the comments at `print.c:185-186` say that `%lx` prints a prefix and `%lX`
   does not. Both run the same lines, which print none; only `%x` has one (`print.c:122`).

Seen while modelling, and not stated as a run because nothing in the repository
promises otherwise: `ioapic_mask_all` and `ioapic_unmask_all` pass vectors where IRQs are
expected and reach no IRQ (`ioapic.c:54`, `ioapic.c:59`); a request for IRQ 0 does not look
for its override, so that with the usual one the timer's line cannot be unmasked
(`ioapic.c:65`); `%u` and `%x` show a minus sign from 2^31 on, and `%ld`, `%li` and `%l`
none for a negative long (`print.c:116`, `print.c:204`); the identity map of the boot code
stays cached until the first flush (`multiboot.asm:204-207`); the last even index of a block of tables lies over the
block's metadata (`virtmem.c:53`); the start of an available region is rounded
up, and so is its end, so that its last, partial page is free (`physmem.c:84`);
`oarray_insert` calls its comparison through the wrong type (`kalloc.c:220`);
`PIC_remap` "restores the masks we saved" as 0 (`pic.c:66`), which `PIC_disable` in
the next line of its only caller undoes while interrupts are still off; the flags of
an override (polarity and trigger) and the first line of the I/O APIC, `gsi_base`, are
read and never applied (`ioapic.c:111`, `ioapic.c:125`); the line control register of the
serial port is set to 2, which is 7 bits, where the comment says 8 (`serialdriver.c:21`),
and if the loopback test fails for it the port is used in loopback mode; `kmain` sets
`is_legacy_bios` and clears it with the whole of `kboot` in the next line
(`kernel.c:39-40`).

## 6. Not modelled

The components without a module are listed in `PROJECT.json` with the reason: segment
descriptors, the framebuffer's patterns and `cpuid` compute constants and pixels and keep
no state; the rest are build files. Within the modelled ones: memory above 64 GiB, for
which `pmm` has no bit; requests near 2^64, whose sums wrap; a second `kfree` of one block
after another client got it, and `oarray_remove` and `oarray_destroy`, which have no
caller; an exception inside the exception handler itself, and non-maskable interrupts;
`PIC_set_mask`, `PIC_enable` and the reads of the 8259s' registers, which have no caller;
the checksums of ACPI tables, which are taken to hold; the fields of a redirection entry
besides vector and mask; what becomes of the kernel after the heap and a table have met;
the tag with the name of the boot
loader, which is also read as a framebuffer since its case falls through
(`kernel.c:56-60`); the debug port 0xe9, which nothing switches on. The I/O APIC is
written in two accesses, index and data: no handler of the code uses it, so they are one
step.

## 7. Plan

Done: all modules of section 2 with their runs; the proofs of section 4, which state
every safety property of the runs.

Next would be the safety half of `EveryLineSent`: that what left the port of a call, what
is in the queue, and what the call has yet to write are together its line. It needs lemmas
about the selection of a call's characters from the wire. After it, the binary conversions.

The liveness properties stay with TLC.
