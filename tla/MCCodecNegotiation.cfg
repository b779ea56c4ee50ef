CONSTANTS
    Codecs = {"sbc", "aac"}
    Capacity = 2
    Offers <- MCFewOffers
    MaxTries = 2
SPECIFICATION FairSpec
INVARIANTS WantedIsOpened DecoderMatchesStream
PROPERTY SearchEnds
