SPECIFICATION Spec
CONSTANTS
    Names <- MCNames
    RblnName <- MCRblnName
    SharedObject <- MCSharedObject
    GlibcName <- MCGlibcName
    DeviceClass <- MCDeviceClass
    DeviceIndex <- MCDeviceIndex
    SoLink <- MCSoLink
    NoName = "none"
    MaxLinks = 4
    Sites <- MCChained
    InstallerMount <- MCHostMount
    Tree <- MCTree
    Group <- MCGroup
    Image <- MCImage
INVARIANTS
    LinksAvoidMounts
