CONSTANTS
  PAGE_SIZE = 3
  ADDRESSES = 1024
  MAX_MEM_REGIONS = 32
  MemoryMap <- MCMemoryMap
  LOW = 6
  Kernel <- MCKernel
  Framebuffer <- MCFramebuffer
  Module <- MCModule
  Info <- MCInfo
  ENTRIES = 8
  SLOTS = 13
  KERNEL_SLOT = 3
  FB_START = 38
  KHEAP_START = 40
  KHEAP_INITIAL = 8
  LARGE_START = 56
  RECURSIVE_SLOT = 12
  TEMP_PD_SLOT = 9
  TEMP_FRAME_SLOT = 10
  TEMP_PT_SLOT = 11
  kernel_pd = 3
  page_table_low = 4
  InitrdPages = 1
  KSTACK_PAGES = 1
  USER_STACK_TOP = 24
  Program <- MCProgram
  Init_program <- MCInit_program
  MaxProc = 4
  MaxHeap = 3
SPECIFICATION Spec
INVARIANTS
  TypeOK
  FramesHaveOneUse
  KernelPagesAgree
  BootSlotsReachAll
  ImageLoaded
CHECK_DEADLOCK FALSE
