\* st_blocks and the seek arithmetic for every datasize up to 5 KiB plus one byte.
CONSTANT MaxSize = 5121
CONSTANT Width = 16
SPECIFICATION Spec
INVARIANT StBlocksIsCeiling
INVARIANT SeekMatchesReference
