CONSTANTS
    Codecs = {"sbc", "aac"}
    Capacity = 2
    Offers <- MCOffers
    MaxTries = 1
SPECIFICATION Spec
INVARIANTS WantedIsOpened DecoderMatchesStream
