SPECIFICATION OutputSpec
CONSTANTS
    Cap = 5
    Buffers = {2, 3, 7}
    Quanta = {2, 3}
    Wrap = 6
PROPERTY
    ImplementsBuffer
