\* Two attachments in three subpasses, then two layers and a changing target;
\* and swapchains of two and three images, two frames running.
SPECIFICATION RenderSpec

CONSTANTS
    None = None
    Size = {"small", "large"}
    MaxLayers = 2
    Target = {"small", "large", None}
    MaxFrames = 2
    MaxRunning = 2
    NoImage = NoImage
    MaxBatch = 4
    MaxAttachments = 2
    MaxSubpasses = 3
    Counts = {2, 3}
    Extent = {"small", "large"}
    MaxChain = 3
    MaxWindowBatch = 3

INVARIANTS PassInv BuilderInv DependenciesSuffice SurfaceInv SemaphoresFresh DrawsToAcquired WindowFramebufferKept

\* A program that took an attachment that is not there stops.
CHECK_DEADLOCK FALSE
