\* Two layers: the command buffer keeps the first framebuffer, whichever it draws to.
SPECIFICATION RenderSpec

CONSTANTS
    None = None
    Size = {"small", "large"}
    MaxLayers = 2
    Target = {None}
    MaxFrames = 2
    MaxRunning = 2
    NoImage = NoImage
    MaxBatch = 4
    MaxAttachments = 1
    MaxSubpasses = 1
    Counts = {2}
    Extent = {"small", "large"}
    MaxChain = 1
    MaxWindowBatch = 1

INVARIANTS FramebufferKept

\* A program that took an attachment that is not there stops.
CHECK_DEADLOCK FALSE
