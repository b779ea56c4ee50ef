CONSTANTS
    Codecs = {"sbc", "aac"}
    Capacity = 2
    Offers <- MCOffers
    MaxTries = 2
SPECIFICATION Spec
INVARIANT NothingLeftOver
