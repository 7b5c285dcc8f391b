\* `data` at 1MB, 6MB (inside the second 4MB page but the first 16MB one)
\* and 4095MB, the top of the 32-bit address space.
CONSTANT DataAddrs = {1, 6, 4095}
SPECIFICATION Spec
\* The enumerator names and values say the page size; the entries map pages
\* of the size squared.
INVARIANT EntryMapsNamedPage
