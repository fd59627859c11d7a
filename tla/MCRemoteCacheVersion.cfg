SPECIFICATION Spec
CONSTANTS
    app = app
    tool = tool
    multi = multi
    base = base
    bin = bin
    lib = lib
    amd64 = amd64
    arm64 = arm64
    Conversion = {app, tool, multi}
    Layer = {base, bin, lib}
    Platform = {amd64, arm64}
    Selected = {amd64, arm64}
    Image <- MCImage
    Size = 2
    MaxVersion = 2
    MaxGone = 0
INVARIANT
    TargetMatchesVersion
CHECK_DEADLOCK FALSE
